---------------------------- MODULE Spec2Model ----------------------------
(***************************************************************************)
(* State-machine model of the orchestration and decision logic of the      *)
(* editorial pipeline:                                                     *)
(*   - content_pipeline.run : Researcher, then the bounded revision loop   *)
(*     Writer -> Fact-Checker -> Evaluator, then the social writer;        *)
(*   - agents/evaluator.run : recomputation of overall / passed;           *)
(*   - pipeline.run         : the seven-way fetch fan-out under one        *)
(*     deadline;                                                           *)
(*   - agents/editor.run    : default evidence and the A/B/C tier;         *)
(*   - calendar_planner     : urgency classification and the 4-week        *)
(*     calendar (placement, redistribution, dates).                        *)
(* Each component has its own specification (SpecRevision, SpecEvaluator,  *)
(* SpecFanout, SpecScorer, SpecUrgency, SpecCalendar) over its own         *)
(* variables; the variables of the other components stay at their idle     *)
(* values.                                                                 *)
(***************************************************************************)
EXTENDS Integers, Sequences, FiniteSets, TLC

VARIABLES
    \* ---- content_pipeline.run ----
    content_pc,          \* position of content_pipeline.run
    pass_num,            \* loop variable of the revision loop
    article,             \* local variable `article` of the current pass
    revision_feedback,   \* local variable `revision_feedback`
    content_result,      \* the ContentResult being built
    calls,               \* history: the collaborator calls made, in order
    reported,            \* history: overall/passed as the scoring service sent them
    \* ---- agents/evaluator.run on its own ----
    ev_pc,               \* "call" -> "returned" -> "gated"
    ev_raw,              \* the parsed JSON response of the scoring service
    ev_out,              \* what evaluator.run returns
    ev_gate,             \* the loop's reading of evaluation.get("passed", False)
    \* ---- pipeline.run: the fetch fan-out ----
    fan_pc,              \* position of pipeline.run
    env,                 \* the configuration read from the environment
    worker,              \* per fetch: "running", "returned", "raised", or "finished"
                         \* once it ends after the main thread stopped awaiting it
    returned_late,       \* history: the fetches that returned after the deadline
    now,                 \* time.monotonic(), in ticks
    deadline,            \* the local `deadline`
    wait_until,          \* when the current future.result(timeout=remaining) expires
    fetch_idx,           \* position of the loop over fetch_map
    fetched,             \* the locals ga4_pages, gsc_queries, ... by label
    pipeline_result,     \* the PipelineResult being built
    \* ---- agents/editor.run: normalisation and confidence tier ----
    ed_pc,               \* "items" -> "returned"
    candidate_list,      \* the list extracted from the response
    ed_idx,              \* position of the loop over candidate_list
    ed_result,           \* the local `result`, then the returned list
    \* ---- calendar_planner._urgency on its own ----
    urg_pc,              \* "call" -> "returned"
    urg_idea,            \* the argument `idea`
    urg_trends,          \* the argument `trends_data`
    urg_out,             \* the returned urgency
    \* ---- calendar_planner.generate_content_calendar ----
    cal_pc,              \* "start", "phase1", "phase2", "phase3", "returned"
    ideas,               \* the argument `ideas`
    today,               \* the weekday of date.today() (0 = Monday), once read
    monday,              \* the local `monday`, in days from today
    sorted_ideas,        \* the local `sorted_ideas` (positions in `ideas`)
    place_idx,           \* position of the phase-1 loop over sorted_ideas
    week_slot_counters,  \* the local `week_slot_counters`
    calendar,            \* the local `calendar`, then the returned list
    moves,               \* history: number of redistribution moves made
    \* ---- seo_potential.calculate_seo_potential ----
    seo_pc,              \* "run" -> "returned"
    seo_pages,           \* the argument `gsc_pages`
    seo_queries,         \* the argument `gsc_queries`
    page_idx,            \* position of the loop over gsc_pages
    query_idx,           \* position of the loop over gsc_queries
    opportunities,       \* the local `opportunities`
    fast_ranker_total,   \* the local `fast_ranker_total`
    ctr_gap_total,       \* the local `ctr_gap_total`
    seo_out,             \* the returned dictionary
    \* ---- pipeline.run after the fetches, and the run history ----
    run_pc,              \* position of pipeline.run, or "saving"
    run_result,          \* the PipelineResult fields set after the fetches
    run_failed,          \* history: the collaborators whose call failed
    history_file,        \* data/ideas_history.json
    hist_initial,        \* history: the history file before the first call
    hist_saved,          \* history: the entries written by successful calls
    hist_calls,          \* history: number of _save_ideas_history calls
    hist_clean,          \* history: every call so far succeeded
    \* ---- agents/idea_evaluator.run and step 3 of evaluation_pipeline.run ----
    idea_pc,             \* "call" -> "returned" -> "stored"
    idea_service,        \* what the chat completion does: "responds" or "raises"
    idea_data,           \* the local `data`: the parsed JSON response
    idea_evaluation,     \* what idea_evaluator.run returned, or that it raised
    idea_result          \* the EvaluationResult of evaluation_pipeline.run

revVars == <<content_pc, pass_num, article, revision_feedback, content_result,
             calls, reported>>

evVars == <<ev_pc, ev_raw, ev_out, ev_gate>>

fanVars == <<fan_pc, env, worker, returned_late, now, deadline, wait_until,
             fetch_idx, fetched, pipeline_result>>

edVars == <<ed_pc, candidate_list, ed_idx, ed_result>>

urgVars == <<urg_pc, urg_idea, urg_trends, urg_out>>

calVars == <<cal_pc, ideas, today, monday, sorted_ideas, place_idx, week_slot_counters,
             calendar, moves>>

seoVars == <<seo_pc, seo_pages, seo_queries, page_idx, query_idx, opportunities,
             fast_ranker_total, ctr_gap_total, seo_out>>

tailVars == <<run_pc, run_result, run_failed, history_file, hist_initial, hist_saved,
              hist_calls, hist_clean>>

ideaVars == <<idea_pc, idea_service, idea_data, idea_evaluation, idea_result>>

vars == <<revVars, evVars, fanVars, edVars, urgVars, calVars, seoVars, tailVars, ideaVars>>

\* what an action of one component leaves alone
notRev == <<evVars, fanVars, edVars, urgVars, calVars, seoVars, tailVars, ideaVars>>

notEv == <<revVars, fanVars, edVars, urgVars, calVars, seoVars, tailVars, ideaVars>>

notFan == <<revVars, evVars, edVars, urgVars, calVars, seoVars, tailVars, ideaVars>>

notEd == <<revVars, evVars, fanVars, urgVars, calVars, seoVars, tailVars, ideaVars>>

notUrg == <<revVars, evVars, fanVars, edVars, calVars, seoVars, tailVars, ideaVars>>

notCal == <<revVars, evVars, fanVars, edVars, urgVars, seoVars, tailVars, ideaVars>>

notSeo == <<revVars, evVars, fanVars, edVars, urgVars, calVars, tailVars, ideaVars>>

notTail == <<revVars, evVars, fanVars, edVars, urgVars, calVars, seoVars, ideaVars>>

notIdea == <<revVars, evVars, fanVars, edVars, urgVars, calVars, seoVars, tailVars>>

---------------------------------------------------------------------------
(* Python dictionaries are functions with a finite string domain.          *)

EmptyDict == <<>>

\* dict.get(k, default)
Get(d, k, default) == IF k \in DOMAIN d THEN d[k] ELSE default

\* the value None where a string is expected
None == "None"

\* truthiness of a dict / of an optional string
TruthyDict(d) == d # EmptyDict

TruthyStr(s) == s # None /\ s # ""

---------------------------------------------------------------------------
(* config.py                                                               *)

MAX_REVISION_LOOPS == 2

EVALUATOR_MIN_SCORE == 80

---------------------------------------------------------------------------
(* agents/evaluator.py                                                     *)

\* The four score keys, in the order evaluator.run reads them.
ScoreKeys == <<"authentizitaet", "tiefe", "klarheit", "relevanz">>

\* Feedback texts the scoring service may send.
FeedbackTexts == {"", "fb1", "fb2"}

\* Aggregates the scoring service may report itself.
ReportedAggregates == {[overall |-> 0, passed |-> FALSE], [overall |-> 100, passed |-> TRUE]}

\* The score dictionaries over per-key value sets: every key outside
\* `optional` is present, each key of `optional` is present or left out.
ScoreDictsOver(values, optional) ==
    LET keys == {ScoreKeys[i] : i \in 1..4}
    IN  UNION { { f \in [ks -> UNION {values[k] : k \in ks}] :
                     \A k \in ks : f[k] \in values[k] } :
                ks \in { x \in SUBSET keys : keys \ x \subseteq optional } }

\* A variant of round() that rounds a half upwards.
PyRoundQuarter_half_up(s) == (s + 2) \div 4

\* Python's round() of s/4 for an integer s >= 0: round-half-to-even.
PyRoundQuarter(s) ==
    LET q == s \div 4
        r == s % 4
    IN  IF r < 2 THEN q
        ELSE IF r > 2 THEN q + 1
        ELSE IF q % 2 = 0 THEN q ELSE q + 1

\* score_values of evaluator.run: scores.get(key, 0) for the four keys
score_values(scores) == [i \in 1..4 |-> Get(scores, ScoreKeys[i], 0)]

SumSeq(s) == s[1] + s[2] + s[3] + s[4]

\* overall = round(sum(score_values) / max(len(score_values), 1))
overall_of(scores) == PyRoundQuarter(SumSeq(score_values(scores)))

\* A variant that keeps the aggregate the service reported.
evaluator_run_trusting(raw) ==
    [k \in DOMAIN raw \cup {"overall", "passed", "feedback"} |->
        CASE k = "overall"  -> Get(raw, "overall", 0)
          [] k = "passed"   -> Get(raw, "passed", FALSE)
          [] k = "feedback" -> Get(raw, "feedback", "")
          [] OTHER          -> raw[k]]

\* evaluator.run after the service call: `raw` is the parsed JSON response;
\* overall and passed are overwritten, feedback is defaulted, other keys kept.
evaluator_run(raw) ==
    LET scores  == Get(raw, "scores", EmptyDict)
        overall == overall_of(scores)
    IN  [k \in DOMAIN raw \cup {"overall", "passed", "feedback"} |->
            CASE k = "overall"  -> overall
              [] k = "passed"   -> (overall >= EVALUATOR_MIN_SCORE)
              [] k = "feedback" -> Get(raw, "feedback", "")
              [] OTHER          -> raw[k]]

\* The JSON responses of the scoring service over a set of score dictionaries:
\* with feedback, and without the feedback key.
RawEvaluationsOver(dicts, feedbacks) ==
    { [scores |-> sc, overall |-> ag.overall, passed |-> ag.passed, feedback |-> fb] :
          sc \in dicts, ag \in ReportedAggregates, fb \in feedbacks }
    \cup
    { [scores |-> sc, overall |-> ag.overall, passed |-> ag.passed] :
          sc \in dicts, ag \in ReportedAggregates }

\* The scores the service sends inside the revision loop of the model.
LoopScoreValues ==
    [authentizitaet |-> {80, 90},
     tiefe          |-> {79, 82},
     klarheit       |-> {77},
     relevanz       |-> {77, 82, 95}]

LoopRawEvaluations ==
    RawEvaluationsOver(ScoreDictsOver(LoopScoreValues, {"relevanz"}), FeedbackTexts)

\* The scores the service sends when evaluator.run is checked on its own:
\* the same values for every key, every key present or missing.
EvalScores == {0, 77, 79, 80, 82, 90, 95, 100}

EvalRawEvaluations ==
    RawEvaluationsOver(
        ScoreDictsOver([k \in {ScoreKeys[i] : i \in 1..4} |-> EvalScores],
                       {ScoreKeys[i] : i \in 1..4}),
        {"fb1"})

---------------------------------------------------------------------------
(* content_pipeline.py                                                     *)

\* ContentResult() as constructed: every field at its default.
ContentResult ==
    [article         |-> EmptyDict,
     evaluation      |-> EmptyDict,
     research_notes  |-> "",
     revision_count  |-> 0,
     social_snippets |-> EmptyDict,
     errors          |-> <<>>]

\* An error string: its label and, for a loop stage, the "Durchlauf n/max" part.
ErrorString(label, loop) == [label |-> label, loop |-> loop]

\* A variant with one pass too many.
max_passes_off_by_one == MAX_REVISION_LOOPS + 2

\* max_passes = MAX_REVISION_LOOPS + 1
max_passes == MAX_REVISION_LOOPS + 1

\* loop_label = "Durchlauf {pass_num + 1}/{max_passes}"
loop_label(p) == <<p + 1, max_passes>>

\* What writer_agent.run returns on pass p: a fresh, non-empty draft.
WriterDraft(p, fb) == [title |-> "idea", draft_of_pass |-> p, written_with |-> fb, checked |-> FALSE]

\* A variant of the Fact-Checker that returns the draft as it got it.
CheckedDraft_unchecked(a) == a

\* What fact_checker_agent.run returns for a draft: a corrected draft.
CheckedDraft(a) == [a EXCEPT !.checked = TRUE]

\* A variant of the fallback evaluation that carries feedback.
FallbackEvaluation_with_feedback ==
    [scores |-> EmptyDict, overall |-> 0, passed |-> FALSE, feedback |-> "fb1"]

\* A variant of the fallback evaluation that counts as passed.
FallbackEvaluation_passed ==
    [scores |-> EmptyDict, overall |-> 0, passed |-> TRUE, feedback |-> ""]

\* The fallback evaluation of the except branch of the Evaluator step.
FallbackEvaluation ==
    [scores |-> EmptyDict, overall |-> 0, passed |-> FALSE, feedback |-> ""]

\* A variant of the first break that never fires.
PassedBreak_never(evaluation) == FALSE

\* `if evaluation.get("passed", False): break`
PassedBreak(evaluation) == Get(evaluation, "passed", FALSE)

\* A variant of the second break that never fires.
NoFeedbackBreak_never(feedback) == FALSE

\* `if not revision_feedback: break`
NoFeedbackBreak(feedback) == ~ TruthyStr(feedback)

\* History kept with an Evaluator call: what the loop reads of its result.
Verdict(evaluation) ==
    [passed |-> Get(evaluation, "passed", FALSE),
     feedback |-> Get(evaluation, "feedback", "")]

\* History kept with a call: the pass stored in the result before the call.
Stored(result) ==
    [article |-> result.article, evaluation |-> result.evaluation,
     revision_count |-> result.revision_count]

\* A variant of the Writer's except branch that also discards the stored draft.
writer_failed_discarding(result, p) ==
    [result EXCEPT !.errors = Append(@, ErrorString("Writer-Fehler", loop_label(p))),
                   !.article = EmptyDict]

\* The except branch of the Writer step: one error, nothing else touched.
writer_failed(result, p) ==
    [result EXCEPT !.errors = Append(@, ErrorString("Writer-Fehler", loop_label(p)))]

\* A variant of the social-writer condition that ignores the evaluation.
social_wanted_always(result) == TruthyDict(result.article)

\* `if result.evaluation.get("passed", False) and result.article:`
social_wanted(result) ==
    Get(result.evaluation, "passed", FALSE) /\ TruthyDict(result.article)

\* os.getenv("OPENAI_API_KEY") and the early return.
CP_Start ==
    /\ content_pc = "start"
    /\ \E api_key \in {"", "key"} :
          IF ~ TruthyStr(api_key)
          THEN /\ content_result' =
                     [content_result EXCEPT !.errors =
                         Append(@, ErrorString("OPENAI_API_KEY fehlt", <<>>))]
               /\ content_pc' = "returned"
          ELSE /\ content_pc' = "researcher"
               /\ UNCHANGED content_result
    /\ UNCHANGED <<pass_num, article, revision_feedback, calls, reported, notRev>>

\* Step 1: the researcher call, then the loop set-up.
CP_Researcher ==
    /\ content_pc = "researcher"
    /\ \E raises \in BOOLEAN :
          /\ calls' = Append(calls, [agent |-> "researcher", pass |-> 0, feedback |-> None,
                                     draft |-> EmptyDict, raised |-> raises])
          /\ content_result' =
             IF raises
             THEN [content_result EXCEPT
                     !.errors = Append(@, ErrorString("Researcher-Fehler", <<>>)),
                     !.research_notes = "Keine Research-Notes verfuegbar."]
             ELSE [content_result EXCEPT !.research_notes = "notes"]
    /\ revision_feedback' = None
    /\ pass_num' = 0
    /\ content_pc' = IF 0 < max_passes THEN "writer" ELSE "social"
    /\ UNCHANGED <<article, reported, notRev>>

\* The Writer step of a pass; a failure breaks out of the loop.
CP_Writer ==
    /\ content_pc = "writer"
    /\ \E raises \in BOOLEAN :
          /\ calls' = Append(calls, [agent |-> "writer", pass |-> pass_num,
                                     feedback |-> revision_feedback,
                                     draft |-> EmptyDict, raised |-> raises,
                                     before |-> IF raises THEN Stored(content_result)
                                                ELSE EmptyDict])
          /\ IF raises
             THEN /\ content_result' = writer_failed(content_result, pass_num)
                  /\ content_pc' = "social"
                  /\ UNCHANGED article
             ELSE /\ article' = WriterDraft(pass_num, revision_feedback)
                  /\ content_pc' = "fact_checker"
                  /\ UNCHANGED content_result
    /\ UNCHANGED <<pass_num, revision_feedback, reported, notRev>>

\* The Fact-Checker step; a failure keeps the unchecked article.
CP_FactChecker ==
    /\ content_pc = "fact_checker"
    /\ \E raises \in BOOLEAN :
          /\ calls' = Append(calls, [agent |-> "fact_checker", pass |-> pass_num,
                                     feedback |-> None,
                                     draft |-> article, raised |-> raises])
          /\ IF raises
             THEN /\ content_result' =
                        [content_result EXCEPT !.errors =
                            Append(@, ErrorString("Fact-Checker-Fehler", loop_label(pass_num)))]
                  /\ UNCHANGED article
             ELSE /\ article' = CheckedDraft(article)
                  /\ UNCHANGED content_result
    /\ content_pc' = "evaluator"
    /\ UNCHANGED <<pass_num, revision_feedback, reported, notRev>>

\* A variant of the end of a pass that keeps the first draft stored.
store_pass_keeping_draft(result, draft, evaluation, p) ==
    [result EXCEPT !.article = IF TruthyDict(@) THEN @ ELSE draft,
                   !.evaluation = evaluation,
                   !.revision_count = p]

\* result.article = article; result.evaluation = evaluation;
\* result.revision_count = pass_num
store_pass(result, draft, evaluation, p) ==
    [result EXCEPT !.article = draft, !.evaluation = evaluation, !.revision_count = p]

\* The rest of a pass once `evaluation` and the errors of the Evaluator step
\* are known: store the pass, then break or go on to the next pass.
CP_StoreAndDecide(evaluation, errors) ==
    /\ content_result' =
          store_pass([content_result EXCEPT !.errors = errors], article, evaluation, pass_num)
    /\ IF PassedBreak(evaluation)
       THEN /\ content_pc' = "social"
            /\ UNCHANGED <<pass_num, revision_feedback>>
       ELSE /\ revision_feedback' = Get(evaluation, "feedback", "")
            /\ IF NoFeedbackBreak(Get(evaluation, "feedback", "")) \/ pass_num + 1 >= max_passes
               THEN /\ content_pc' = "social"
                    /\ UNCHANGED pass_num
               ELSE /\ content_pc' = "writer"
                    /\ pass_num' = pass_num + 1

\* The Evaluator step and the end of the pass.
CP_Evaluator ==
    /\ content_pc = "evaluator"
    /\ \/ \E raw \in LoopRawEvaluations :
             /\ calls' = Append(calls, [agent |-> "evaluator", pass |-> pass_num,
                                        feedback |-> None,
                                        draft |-> article, raised |-> FALSE,
                                        result |-> Verdict(evaluator_run(raw))])
             /\ reported' = [overall |-> raw.overall, passed |-> raw.passed]
             /\ CP_StoreAndDecide(evaluator_run(raw), content_result.errors)
       \/ /\ calls' = Append(calls, [agent |-> "evaluator", pass |-> pass_num,
                                     feedback |-> None,
                                     draft |-> article, raised |-> TRUE,
                                     result |-> Verdict(FallbackEvaluation)])
          /\ reported' = None
          /\ CP_StoreAndDecide(FallbackEvaluation,
                Append(content_result.errors,
                       ErrorString("Evaluator-Fehler", loop_label(pass_num))))
    /\ UNCHANGED <<article, notRev>>

\* After the loop: the social writer, only for a passed, non-empty article.
CP_Social ==
    /\ content_pc = "social"
    /\ IF social_wanted(content_result)
       THEN \E raises \in BOOLEAN :
               /\ calls' = Append(calls, [agent |-> "social_writer", pass |-> pass_num,
                                          feedback |-> None,
                                          draft |-> content_result.article,
                                          raised |-> raises,
                                          before |-> Stored(content_result)])
               /\ content_result' =
                     IF raises
                     THEN [content_result EXCEPT !.errors =
                              Append(@, ErrorString("Social-Writer-Fehler", <<>>))]
                     ELSE [content_result EXCEPT !.social_snippets =
                              [linkedin |-> "l", twitter |-> "t", newsletter_teaser |-> "n"]]
       ELSE UNCHANGED <<calls, content_result>>
    /\ content_pc' = "returned"
    /\ UNCHANGED <<pass_num, article, revision_feedback, reported, notRev>>

RevInit ==
    /\ content_pc = "start"
    /\ pass_num = 0
    /\ article = EmptyDict
    /\ revision_feedback = None
    /\ content_result = ContentResult
    /\ calls = <<>>
    /\ reported = None

RevIdle ==
    /\ content_pc = "idle"
    /\ pass_num = 0
    /\ article = EmptyDict
    /\ revision_feedback = None
    /\ content_result = ContentResult
    /\ calls = <<>>
    /\ reported = None

RevNext ==
    \/ CP_Start
    \/ CP_Researcher
    \/ CP_Writer
    \/ CP_FactChecker
    \/ CP_Evaluator
    \/ CP_Social

---------------------------------------------------------------------------
(* agents/evaluator.run on one service response, and the loop's reading    *)
(* of its result.                                                          *)

EvInit ==
    /\ ev_pc = "call"
    /\ ev_raw \in EvalRawEvaluations
    /\ ev_out = EmptyDict
    /\ ev_gate = None

EvIdle ==
    /\ ev_pc = "idle"
    /\ ev_raw = EmptyDict
    /\ ev_out = EmptyDict
    /\ ev_gate = None

\* evaluator_agent.run(client, article, idea) returns
EV_Run ==
    /\ ev_pc = "call"
    /\ ev_out' = evaluator_run(ev_raw)
    /\ ev_pc' = "returned"
    /\ UNCHANGED <<ev_raw, ev_gate, notEv>>

\* the revision loop reads the result: break as Passed, or go on
EV_Gate ==
    /\ ev_pc = "returned"
    /\ ev_gate' = IF PassedBreak(ev_out) THEN "Passed" ELSE "NotPassed"
    /\ ev_pc' = "gated"
    /\ UNCHANGED <<ev_raw, ev_out, notEv>>

EvNext ==
    \/ EV_Run
    \/ EV_Gate

---------------------------------------------------------------------------
(* pipeline.py: the fetch fan-out of run.                                  *)
(* Time is counted in ticks; MinWait is the 0.1 s floor of a wait and      *)
(* DeadlineTicks the 45 s budget, scaled down to a few ticks.              *)

DeadlineTicks == 1

MinWait == 1

\* fetch_map: the labels in the order the futures are awaited
fetch_map == <<"GA4", "GA4-90T", "GSC", "GSC-90T", "GSC-Pages", "RSS", "Trends">>

NumFetches == Len(fetch_map)

\* the PipelineResult field a label's data is stored in
FieldOf(label) ==
    CASE label = "GA4"       -> "ga4_pages"
      [] label = "GA4-90T"   -> "ga4_pages_long"
      [] label = "GSC"       -> "gsc_queries"
      [] label = "GSC-90T"   -> "gsc_queries_long"
      [] label = "GSC-Pages" -> "gsc_pages"
      [] label = "RSS"       -> "rss_articles"
      [] OTHER               -> "trends_data"

\* PipelineResult() as constructed
PipelineResult ==
    [ideas |-> <<>>, errors |-> <<>>,
     ga4_pages |-> <<>>, gsc_queries |-> <<>>, rss_articles |-> <<>>,
     gsc_pages |-> <<>>, ga4_pages_long |-> <<>>, gsc_queries_long |-> <<>>,
     trends_data |-> <<>>, fetched_at |-> None]

\* the locals ga4_pages ... trends_data before the fan-out: empty lists
NoData == [i \in 1..NumFetches |-> <<>>]

\* the records a source's client returns: a non-empty list naming the source
ClientData(label) == <<[source |-> label]>>

\* `if not property_id or not has_credentials: return []` and its GSC twin;
\* the RSS and Trends fetches have no prerequisite
ShortCircuited(label) ==
    CASE label \in {"GA4", "GA4-90T"} -> ~ env.property_id \/ ~ env.has_credentials
      [] label \in {"GSC", "GSC-90T", "GSC-Pages"} -> ~ env.site_url \/ ~ env.has_credentials
      [] OTHER -> FALSE

\* what a fetch function returns when it returns
FetchReturn(label) == IF ShortCircuited(label) THEN <<>> ELSE ClientData(label)

\* remaining = max(0.1, deadline - time.monotonic())
remaining == IF deadline - now > MinWait THEN deadline - now ELSE MinWait

\* what future.result can raise here: the fetch's own exception, or the
\* TimeoutError of an expired wait
FetchErrors == {"client error", "TimeoutError"}

\* A variant of the except clause that lets a TimeoutError through.
CaughtByExcept_not_timeout(e) == e # "TimeoutError"

\* `except Exception`: both are subclasses of Exception
CaughtByExcept(e) == e \in FetchErrors

\* result.errors.append(f"{label}-Fehler: {e}")
OnFetchError(errors, label, e) == Append(errors, [label |-> label, error |-> e])

\* the if/elif chain of lines 208-221: data goes to the label's own local
StoreFetched(slots, i, data) == [slots EXCEPT ![i] = data]

\* the configuration read from the environment, and the missing-key return
FAN_Start ==
    /\ fan_pc = "start"
    /\ \E api_key \in BOOLEAN :
          IF ~ api_key
          THEN /\ pipeline_result' =
                     [pipeline_result EXCEPT !.errors =
                         Append(@, [label |-> "OPENAI_API_KEY", error |-> "fehlt"])]
               /\ fan_pc' = "returned"
          ELSE /\ fan_pc' = "submit"
               /\ UNCHANGED pipeline_result
    /\ UNCHANGED <<env, worker, returned_late, now, deadline, wait_until,
                   fetch_idx, fetched, notFan>>

\* the executor is entered, the seven fetches are submitted, the deadline is
\* set and the first wait begins
FAN_Submit ==
    /\ fan_pc = "submit"
    /\ worker' = [i \in 1..NumFetches |-> "running"]
    /\ deadline' = now + DeadlineTicks
    /\ fetch_idx' = 1
    /\ wait_until' = now + DeadlineTicks
    /\ fan_pc' = "waiting"
    /\ UNCHANGED <<env, returned_late, now, fetched, pipeline_result, notFan>>

\* the main thread has stopped awaiting fetch i: its future is never read
\* again, so only whether it is still running is kept of it
Abandoned(i) == fan_pc = "shutdown" \/ i < fetch_idx

\* a fetch function returns in its worker thread
WorkerReturns(i) ==
    /\ fan_pc \in {"waiting", "shutdown"}
    /\ worker[i] = "running"
    /\ worker' = [worker EXCEPT ![i] = IF Abandoned(i) THEN "finished" ELSE "returned"]
    /\ returned_late' = IF ~ Abandoned(i) /\ now > deadline
                        THEN returned_late \cup {i} ELSE returned_late
    /\ UNCHANGED <<fan_pc, env, now, deadline, wait_until, fetch_idx, fetched,
                   pipeline_result, notFan>>

\* a client call raises in its worker thread
WorkerRaises(i) ==
    /\ fan_pc \in {"waiting", "shutdown"}
    /\ worker[i] = "running"
    /\ ~ ShortCircuited(fetch_map[i])
    /\ worker' = [worker EXCEPT ![i] = IF Abandoned(i) THEN "finished" ELSE "raised"]
    /\ UNCHANGED <<fan_pc, env, returned_late, now, deadline, wait_until, fetch_idx,
                   fetched, pipeline_result, notFan>>

\* time passes while the main thread waits; a short-circuited fetch takes no
\* time, and an expired wait ends before more time passes
Tick ==
    /\ fan_pc = "waiting"
    /\ now < wait_until
    /\ \A i \in 1..NumFetches : worker[i] = "running" => ~ ShortCircuited(fetch_map[i])
    /\ now' = now + 1
    /\ UNCHANGED <<fan_pc, env, worker, returned_late, deadline, wait_until, fetch_idx,
                   fetched, pipeline_result, notFan>>

\* the end of one iteration of the loop over fetch_map: the next wait
\* begins, or the loop ends and the with-block is left
NextFetch ==
    IF fetch_idx < NumFetches
    THEN /\ fetch_idx' = fetch_idx + 1
         /\ wait_until' = now + remaining
         /\ fan_pc' = "waiting"
    ELSE /\ fan_pc' = "shutdown"
         /\ UNCHANGED <<fetch_idx, wait_until>>

\* future.result(timeout=remaining) returns the data
FAN_Result ==
    /\ fan_pc = "waiting"
    /\ worker[fetch_idx] = "returned"
    /\ fetched' = StoreFetched(fetched, fetch_idx, FetchReturn(fetch_map[fetch_idx]))
    /\ NextFetch
    /\ UNCHANGED <<env, worker, returned_late, now, deadline, pipeline_result, notFan>>

\* the except branch of one iteration; an exception the clause does not
\* catch leaves run
OnFutureError(e) ==
    IF CaughtByExcept(e)
    THEN /\ pipeline_result' =
               [pipeline_result EXCEPT !.errors = OnFetchError(@, fetch_map[fetch_idx], e)]
         /\ NextFetch
    ELSE /\ fan_pc' = "raised"
         /\ UNCHANGED <<pipeline_result, fetch_idx, wait_until>>

\* future.result(timeout=remaining) re-raises the fetch's exception
FAN_Exception ==
    /\ fan_pc = "waiting"
    /\ worker[fetch_idx] = "raised"
    /\ OnFutureError("client error")
    /\ UNCHANGED <<env, worker, returned_late, now, deadline, fetched, notFan>>

\* future.result(timeout=remaining) raises TimeoutError
FAN_Timeout ==
    /\ fan_pc = "waiting"
    /\ worker[fetch_idx] = "running"
    /\ now >= wait_until
    /\ OnFutureError("TimeoutError")
    /\ UNCHANGED <<env, worker, returned_late, now, deadline, fetched, notFan>>

\* the with-block is left: ThreadPoolExecutor.__exit__ is shutdown(wait=True),
\* which returns once every worker thread has finished; then the seven
\* result fields are assigned
FAN_Shutdown ==
    /\ fan_pc = "shutdown"
    /\ \A i \in 1..NumFetches : worker[i] # "running"
    /\ pipeline_result' =
          [f \in DOMAIN pipeline_result |->
              IF \E i \in 1..NumFetches : FieldOf(fetch_map[i]) = f
              THEN fetched[CHOOSE i \in 1..NumFetches : FieldOf(fetch_map[i]) = f]
              ELSE IF f = "fetched_at" THEN "now" ELSE pipeline_result[f]]
    /\ fan_pc' = "seo_potential"
    /\ UNCHANGED <<env, worker, returned_late, now, deadline, wait_until, fetch_idx,
                   fetched, notFan>>

Envs == [property_id : BOOLEAN, site_url : BOOLEAN, has_credentials : BOOLEAN]

FanInit ==
    /\ fan_pc = "start"
    /\ env \in Envs
    /\ worker = [i \in 1..NumFetches |-> "unsubmitted"]
    /\ returned_late = {}
    /\ now = 0
    /\ deadline = 0
    /\ wait_until = 0
    /\ fetch_idx = 0
    /\ fetched = NoData
    /\ pipeline_result = PipelineResult

FanIdle ==
    /\ fan_pc = "idle"
    /\ env = [property_id |-> FALSE, site_url |-> FALSE, has_credentials |-> FALSE]
    /\ worker = [i \in 1..NumFetches |-> "unsubmitted"]
    /\ returned_late = {}
    /\ now = 0
    /\ deadline = 0
    /\ wait_until = 0
    /\ fetch_idx = 0
    /\ fetched = NoData
    /\ pipeline_result = PipelineResult

FanNext ==
    \/ FAN_Start
    \/ FAN_Submit
    \/ \E i \in 1..NumFetches : WorkerReturns(i)
    \/ \E i \in 1..NumFetches : WorkerRaises(i)
    \/ Tick
    \/ FAN_Result
    \/ FAN_Exception
    \/ FAN_Timeout
    \/ FAN_Shutdown

---------------------------------------------------------------------------
(* Idea dictionaries.  Text inside them is a sequence of characters, so    *)
(* that truthiness, len, lower, `in` and str are computed on it.           *)

\* None (JSON null) as a value inside an idea dictionary
NoneValue == <<"<None>">>

\* a JSON value that is not an object (a string, a list, a number)
NotADict == [json |-> "not an object"]

isinstance_dict(v) == v # NotADict

\* truthiness of a text value or None
Truthy(v) == v # NoneValue /\ v # <<>>

\* d[k] = v
Put(d, k, v) == [x \in DOMAIN d \cup {k} |-> IF x = k THEN v ELSE d[x]]

\* d.setdefault(k, v)
setdefault(d, k, v) == IF k \in DOMAIN d THEN d ELSE Put(d, k, v)

\* sorted(..., key=...) / list.sort(key=...): the positions of `keys` in
\* ascending key order, equal keys in their original order (stable)
StableOrder(keys) ==
    LET rank(i) == 1 + Cardinality({j \in DOMAIN keys :
                           keys[j] < keys[i] \/ (keys[j] = keys[i] /\ j < i)})
    IN  [r \in DOMAIN keys |-> CHOOSE i \in DOMAIN keys : rank(i) = r]

---------------------------------------------------------------------------
(* agents/editor.py: run (from the extracted candidate list on) and        *)
(* _compute_score.                                                         *)

SignalKeys == <<"ga4", "gsc", "rss">>

DefaultSignals == [ga4 |-> <<>>, gsc |-> <<>>, rss |-> <<>>]

\* _compute_score with the thresholds one too low
compute_score_generous(signals) ==
    LET count == Cardinality({i \in DOMAIN SignalKeys :
                     Truthy(Get(signals, SignalKeys[i], NoneValue))})
    IN  IF count >= 2 THEN "A" ELSE IF count = 1 THEN "B" ELSE "C"

\* _compute_score
compute_score(signals) ==
    LET count == Cardinality({i \in DOMAIN SignalKeys :
                     Truthy(Get(signals, SignalKeys[i], NoneValue))})
    IN  IF count >= 3 THEN "A" ELSE IF count = 2 THEN "B" ELSE "C"

\* the body of the loop over candidate_list for one dict item
NormaliseItem(item) ==
    LET withSignals ==
            IF "signals" \notin DOMAIN item \/ ~ isinstance_dict(item.signals)
            THEN Put(item, "signals", DefaultSignals)
            ELSE Put(item, "signals",
                     setdefault(setdefault(setdefault(item.signals,
                         "ga4", <<>>), "gsc", <<>>), "rss", <<>>))
        withLinks == setdefault(withSignals, "rss_links", <<>>)
    IN  Put(withLinks, "score", compute_score(withLinks.signals))

\* score_order.get(x.get("score", "C"), 2)
score_order(item) ==
    LET s == Get(item, "score", "C")
    IN  IF s = "A" THEN 0 ELSE IF s = "B" THEN 1 ELSE 2

\* one pass of `for item in candidate_list`
ED_Item ==
    /\ ed_pc = "items"
    /\ ed_idx <= Len(candidate_list)
    /\ ed_result' = IF isinstance_dict(candidate_list[ed_idx])
                    THEN Append(ed_result, NormaliseItem(candidate_list[ed_idx]))
                    ELSE ed_result
    /\ ed_idx' = ed_idx + 1
    /\ UNCHANGED <<ed_pc, candidate_list, notEd>>

\* result.sort(key=...); return result
ED_SortAndReturn ==
    /\ ed_pc = "items"
    /\ ed_idx > Len(candidate_list)
    /\ LET order == StableOrder([i \in DOMAIN ed_result |-> score_order(ed_result[i])])
       IN  ed_result' = [r \in DOMAIN ed_result |-> ed_result[order[r]]]
    /\ ed_pc' = "returned"
    /\ UNCHANGED <<candidate_list, ed_idx, notEd>>

\* the values an evidence field can have in the response
SignalTexts == {<<>>, NoneValue, <<"x">>}

\* evidence maps over any subset of the three keys
SignalDicts == UNION {[K -> SignalTexts] : K \in SUBSET {"ga4", "gsc", "rss"}}

\* the title of the i-th candidate (distinct per position)
title_of(i) == [k \in 1..i |-> "t"]

\* the i-th candidate: not a dict, a dict without signals, with signals that
\* are not a dict, or with an evidence map
ItemsAt(i) ==
    {NotADict, [title |-> title_of(i)]}
    \cup {[title |-> title_of(i), signals |-> sg] : sg \in SignalDicts \cup {NotADict}}

MaxCandidates == 2

RECURSIVE CandidateListsOfLen(_)
CandidateListsOfLen(n) ==
    IF n = 0 THEN {<<>>}
    ELSE {Append(l, x) : l \in CandidateListsOfLen(n - 1), x \in ItemsAt(n)}

CandidateListsUpTo(max) == UNION {CandidateListsOfLen(n) : n \in 0..max}

EdInit ==
    /\ ed_pc = "items"
    /\ candidate_list \in CandidateListsUpTo(MaxCandidates)
    /\ ed_idx = 1
    /\ ed_result = <<>>

EdIdle ==
    /\ ed_pc = "idle"
    /\ candidate_list = <<>>
    /\ ed_idx = 1
    /\ ed_result = <<>>

EdNext ==
    \/ ED_Item
    \/ ED_SortAndReturn

---------------------------------------------------------------------------
(* calendar_planner.py: _is_trending, _has_strong_rss, _urgency.           *)

\* str.lower() on the letters that occur in the texts used here
UpperToLower == [Z |-> "z", I |-> "i", N |-> "n", S |-> "s", E |-> "e", T |-> "t",
                 F |-> "f"]

lower(s) == [i \in DOMAIN s |->
                IF s[i] \in DOMAIN UpperToLower THEN UpperToLower[s[i]] ELSE s[i]]

\* Python's `kw in text` on strings
In(kw, text) ==
    \E i \in 0..(Len(text) - Len(kw)) : SubSeq(text, i + 1, i + Len(kw)) = kw

\* repr() of a dictionary value: None, or the text in quotes
py_repr(v) == IF v = NoneValue THEN <<"N", "o", "n", "e">> ELSE <<"'">> \o v \o <<"'">>

\* str() of a dictionary value
py_str(v) == IF v = NoneValue THEN <<"N", "o", "n", "e">> ELSE v

KeyText == [ga4 |-> <<"g", "a", "4">>, gsc |-> <<"g", "s", "c">>, rss |-> <<"r", "s", "s">>]

\* str(signals): "{'ga4': '...', 'gsc': '...', 'rss': '...'}" over the keys present
RECURSIVE JoinEntries(_, _)
JoinEntries(d, keys) ==
    IF keys = <<>> THEN <<>>
    ELSE LET k == Head(keys)
             entry == <<"'">> \o KeyText[k] \o <<"'", ":", " ">> \o py_repr(d[k])
         IN  IF Tail(keys) = <<>> THEN entry
             ELSE entry \o <<",", " ">> \o JoinEntries(d, Tail(keys))

py_str_signals(d) ==
    <<"{">> \o JoinEntries(d, SelectSeq(SignalKeys, LAMBDA k : k \in DOMAIN d)) \o <<"}">>

\* _is_trending
is_trending(idea, trends_data) ==
    LET title == lower(Get(idea, "title", <<>>))
        signals_str == lower(py_str_signals(Get(idea, "signals", EmptyDict)))
    IN  \E n \in DOMAIN trends_data :
            LET kw == lower(Get(trends_data[n], "keyword", <<>>))
            IN  kw # <<>> /\ (In(kw, title) \/ In(kw, signals_str))

\* _has_strong_rss accepting a text of exactly 20 characters
has_strong_rss_at_least(idea) ==
    LET rss == Get(Get(idea, "signals", EmptyDict), "rss", <<>>)
    IN  Truthy(rss) /\ Len(py_str(rss)) >= 20

\* _has_strong_rss
has_strong_rss(idea) ==
    LET rss == Get(Get(idea, "signals", EmptyDict), "rss", <<>>)
    IN  Truthy(rss) /\ Len(py_str(rss)) > 20

\* _urgency
urgency(idea, trends_data) ==
    LET score == Get(idea, "score", "C")
        trending == is_trending(idea, trends_data)
        strong_rss == has_strong_rss(idea)
    IN  IF score = "A" /\ (trending \/ strong_rss) THEN 1
        ELSE IF score = "A" THEN 2
        ELSE IF score = "B" THEN 3
        ELSE 4

\* the first call of _urgency for an idea (the sort key)
URG_Call ==
    /\ urg_pc = "call"
    /\ urg_out' = urgency(urg_idea, urg_trends)
    /\ urg_pc' = "returned"
    /\ UNCHANGED <<urg_idea, urg_trends, notUrg>>

\* the second call for the same idea (phase 1 of the calendar)
URG_CallAgain ==
    /\ urg_pc = "returned"
    /\ urg_out' = urgency(urg_idea, urg_trends)
    /\ urg_pc' = "returned again"
    /\ UNCHANGED <<urg_idea, urg_trends, notUrg>>

\* texts used as titles, evidence and keywords
Zins == <<"Z", "i", "n", "s">>

ETF == <<"E", "T", "F">>

Repeat(c, n) == [i \in 1..n |-> c]

\* rss evidence: empty, null, 20 characters, 21 characters
RssTexts == {<<>>, NoneValue, Repeat("x", 20), Repeat("x", 21)}

UrgencySignals(rss_texts) ==
    {EmptyDict, [ga4 |-> <<"x">>], [ga4 |-> <<"x">>, gsc |-> ETF]}
    \cup {[ga4 |-> <<"x">>, gsc |-> s, rss |-> r] : s \in {<<"x">>, ETF}, r \in rss_texts}

UrgencyScores == {"A", "B", "C", "unknown"}

\* with and without each of title, score and signals
UrgencyIdeasOver(signals) ==
    LET titled == {EmptyDict, [title |-> Zins], [title |-> ETF]}
        scored == titled \cup {Put(i, "score", s) : i \in titled, s \in UrgencyScores}
    IN  scored \cup {Put(i, "signals", sg) : i \in scored, sg \in signals}

\* trend entries: without keyword, empty keyword, keywords in either case,
\* and a keyword that is the name of an evidence field
TrendItems ==
    {EmptyDict}
    \cup {[keyword |-> kw] : kw \in {<<>>, lower(Zins), <<"Z", "I", "N", "S">>,
                                      lower(ETF), KeyText.rss}}

MaxTrends == 2

RECURSIVE TrendListsOfLen(_)
TrendListsOfLen(n) ==
    IF n = 0 THEN {<<>>}
    ELSE {Append(l, t) : l \in TrendListsOfLen(n - 1), t \in TrendItems}

TrendListsUpTo(max) == UNION {TrendListsOfLen(n) : n \in 0..max}

UrgInit ==
    /\ urg_pc = "call"
    /\ urg_idea \in UrgencyIdeasOver(UrgencySignals(RssTexts))
    /\ urg_trends \in TrendListsUpTo(MaxTrends)
    /\ urg_out = 0

UrgIdle ==
    /\ urg_pc = "idle"
    /\ urg_idea = EmptyDict
    /\ urg_trends = <<>>
    /\ urg_out = 0

UrgNext ==
    \/ URG_Call
    \/ URG_CallAgain

---------------------------------------------------------------------------
(* calendar_planner.py: _next_monday and generate_content_calendar.        *)
(* Dates are days counted from today; an entry's `idea` is the position    *)
(* of the idea in `ideas` (the entry refers to that same dictionary).      *)

\* _next_monday that returns today when today is a Monday
next_monday_or_today(weekday) == (7 - weekday) % 7

\* _next_monday, as the number of days from a day with the given weekday
next_monday(weekday) ==
    LET days_until_monday == (7 - weekday) % 7
    IN  IF days_until_monday = 0 THEN 7 ELSE days_until_monday

WEEK_SLOTS == <<0, 2, 4>>

URGENCY_LABELS == <<"Sofort", "Bald", "Geplant", "Rücklog">>

\* the trends_data the calendar is built with
CalendarTrends == <<[keyword |-> lower(Zins)]>>

\* the test of the spill loop that never finds a week full
WeekFull_never(counters, week) == FALSE

\* week_slot_counters[week] >= len(_WEEK_SLOTS)
WeekFull(counters, week) == counters[week] >= Len(WEEK_SLOTS)

\* while week <= 4 and week_slot_counters[week] >= len(_WEEK_SLOTS): week += 1
RECURSIVE SpillFrom(_, _)
SpillFrom(counters, week) ==
    IF week <= 4 /\ WeekFull(counters, week) THEN SpillFrom(counters, week + 1) ELSE week

\* the spill that starts at week 1 whatever the urgency
first_free_week_any(counters, urg) ==
    IF \E w \in 1..4 : ~ WeekFull(counters, w)
    THEN CHOOSE w \in 1..4 :
            ~ WeekFull(counters, w) /\ \A v \in 1..(w - 1) : WeekFull(counters, v)
    ELSE 5

\* week = urg, then the spill loop
first_free_week(counters, urg) == SpillFrom(counters, urg)

\* the spill without the cap at week 4
CapWeek_none(week) == week

\* if week > 4: week = 4
CapWeek(week) == IF week > 4 THEN 4 ELSE week

\* the positions in `calendar` of the entries of a week, in list order
WeekItems(cal, w) == SelectSeq([i \in DOMAIN cal |-> i], LAMBDA i : cal[i].week = w)

\* the redistribution condition asking for three entries in the source week
Movable_three(cal, src) ==
    Len(WeekItems(cal, src)) >= 3 /\ Len(WeekItems(cal, src + 1)) = 0

\* len(src_items) >= 2 and len(dst_items) == 0
Movable(cal, src) ==
    Len(WeekItems(cal, src)) >= 2 /\ Len(WeekItems(cal, src + 1)) = 0

\* if not ideas: return []; monday = _next_monday(); sorted_ideas = sorted(...)
CAL_Start ==
    /\ cal_pc = "start"
    /\ IF ideas = <<>>
       THEN /\ cal_pc' = "returned"
            /\ UNCHANGED <<today, monday, sorted_ideas>>
       ELSE /\ \E weekday \in 0..6 : today' = weekday /\ monday' = next_monday(weekday)
            /\ sorted_ideas' =
                  StableOrder([i \in DOMAIN ideas |-> urgency(ideas[i], CalendarTrends)])
            /\ cal_pc' = "phase1"
    /\ UNCHANGED <<ideas, place_idx, week_slot_counters, calendar, moves, notCal>>

\* phase 1: one pass of `for idea in sorted_ideas`
CAL_Place ==
    /\ cal_pc = "phase1"
    /\ LET idea == sorted_ideas[place_idx]
           urg == urgency(ideas[idea], CalendarTrends)
           week == CapWeek(first_free_week(week_slot_counters, urg))
       IN  /\ week_slot_counters' =
                 [week_slot_counters EXCEPT ![week] = week_slot_counters[week] + 1]
           /\ calendar' = Append(calendar,
                 [idea |-> idea, publish_date |-> monday, week |-> week,
                  urgency |-> urg, urgency_label |-> URGENCY_LABELS[urg]])
    /\ place_idx' = place_idx + 1
    /\ cal_pc' = IF place_idx = Len(sorted_ideas) THEN "phase2" ELSE "phase1"
    /\ UNCHANGED <<ideas, today, monday, sorted_ideas, moves, notCal>>

\* the redistribution taking the first entry of the source week
moved_entry_first(src_items) == src_items[1]

\* src_items[-1]
moved_entry(src_items) == src_items[Len(src_items)]

\* phase 2: one pass of `while changed` that moves an entry
CAL_Move ==
    /\ cal_pc = "phase2"
    /\ \E src \in 1..3 :
          /\ Movable(calendar, src)
          /\ \A earlier \in 1..(src - 1) : ~ Movable(calendar, earlier)
          /\ calendar' = [calendar EXCEPT ![moved_entry(WeekItems(calendar, src))].week = src + 1]
    /\ moves' = moves + 1
    /\ UNCHANGED <<cal_pc, ideas, today, monday, sorted_ideas, place_idx, week_slot_counters,
                   notCal>>

\* phase 2: the pass of `while changed` that changes nothing and ends the loop
CAL_Settled ==
    /\ cal_pc = "phase2"
    /\ \A src \in 1..3 : ~ Movable(calendar, src)
    /\ cal_pc' = "phase3"
    /\ UNCHANGED <<ideas, today, monday, sorted_ideas, place_idx, week_slot_counters,
                   calendar, moves, notCal>>

\* the slot that starts again on Monday after the last one
slot_idx_wrapping(k) == k % Len(WEEK_SLOTS)

\* the slot of the k-th entry (k = 0, 1, ...) of a week
slot_idx(k) == IF k < Len(WEEK_SLOTS) - 1 THEN k ELSE Len(WEEK_SLOTS) - 1

\* phase 3: calendar.sort(key=(week, urgency)), publish dates, return
CAL_Dates ==
    /\ cal_pc = "phase3"
    /\ LET order == StableOrder([i \in DOMAIN calendar |->
                        calendar[i].week * 5 + calendar[i].urgency])
           sorted == [r \in DOMAIN calendar |-> calendar[order[r]]]
           week_counter(r) == Cardinality({q \in 1..(r - 1) : sorted[q].week = sorted[r].week})
       IN  calendar' = [r \in DOMAIN calendar |->
               [sorted[r] EXCEPT !.publish_date =
                   monday + 7 * (sorted[r].week - 1)
                          + WEEK_SLOTS[slot_idx(week_counter(r)) + 1]]]
    /\ cal_pc' = "returned"
    /\ UNCHANGED <<ideas, today, monday, sorted_ideas, place_idx, week_slot_counters, moves,
                   notCal>>

\* one idea of each urgency, by urgency: tier A matching the trend keyword,
\* tier A, tier B, tier C
CalendarIdeas ==
    <<[title |-> Zins, score |-> "A",
       signals |-> [ga4 |-> <<"x">>, gsc |-> <<"x">>, rss |-> <<"x">>]],
      [title |-> ETF, score |-> "A",
       signals |-> [ga4 |-> <<"x">>, gsc |-> <<"x">>, rss |-> <<"x">>]],
      [title |-> ETF, score |-> "B",
       signals |-> [ga4 |-> <<"x">>, gsc |-> <<"x">>, rss |-> <<>>]],
      [title |-> ETF, score |-> "C",
       signals |-> [ga4 |-> <<"x">>, gsc |-> <<>>, rss |-> <<>>]]>>

MaxIdeas == 7

\* c[u] ideas of urgency u, most urgent first
Ascending(c) ==
    Repeat(CalendarIdeas[1], c[1]) \o Repeat(CalendarIdeas[2], c[2])
        \o Repeat(CalendarIdeas[3], c[3]) \o Repeat(CalendarIdeas[4], c[4])

Reverse(s) == [i \in DOMAIN s |-> s[Len(s) + 1 - i]]

\* every multiset of up to `max` ideas over the four urgencies, once with
\* the most urgent first and once with the least urgent first
IdeaListsUpTo(max) ==
    LET counts == {c \in [1..4 -> 0..max] : c[1] + c[2] + c[3] + c[4] <= max}
    IN  {Ascending(c) : c \in counts} \cup {Reverse(Ascending(c)) : c \in counts}

CalInit ==
    /\ cal_pc = "start"
    /\ ideas \in IdeaListsUpTo(MaxIdeas)
    /\ today = 0
    /\ monday = 0
    /\ sorted_ideas = <<>>
    /\ place_idx = 1
    /\ week_slot_counters = [w \in 1..4 |-> 0]
    /\ calendar = <<>>
    /\ moves = 0

CalIdle ==
    /\ cal_pc = "idle"
    /\ ideas = <<>>
    /\ today = 0
    /\ monday = 0
    /\ sorted_ideas = <<>>
    /\ place_idx = 1
    /\ week_slot_counters = [w \in 1..4 |-> 0]
    /\ calendar = <<>>
    /\ moves = 0

CalNext ==
    \/ CAL_Start
    \/ CAL_Place
    \/ CAL_Move
    \/ CAL_Settled
    \/ CAL_Dates

---------------------------------------------------------------------------
(* seo_potential.py: _get_ctr_for_position and calculate_seo_potential.    *)
(* Positions are in tenths, click-through rates in units of 1/150000 (the  *)
(* benchmark table is in thousandths, positions interpolate in tenths      *)
(* between anchors 1, 3 or 5 apart), so the arithmetic is exact.           *)

\* CTR_BENCHMARKS, in thousandths
CTR_BENCHMARKS ==
    (1 :> 278) @@ (2 :> 158) @@ (3 :> 110) @@ (4 :> 79) @@ (5 :> 58) @@ (6 :> 43)
    @@ (7 :> 33) @@ (8 :> 26) @@ (9 :> 20) @@ (10 :> 16) @@ (11 :> 12) @@ (12 :> 10)
    @@ (15 :> 7) @@ (20 :> 4)

MAX_TOTAL_POTENTIAL == 5000

\* rate units per thousandth
CtrUnit == 150

\* int(x) of the quotient n / d: truncation toward zero
TruncDiv(n, d) == IF n >= 0 THEN n \div d ELSE - ((- n) \div d)

SetMax(S) == CHOOSE x \in S : \A y \in S : y <= x

SetMin(S) == CHOOSE x \in S : \A y \in S : x <= y

\* _get_ctr_for_position, position in tenths
get_ctr_for_position(pos) ==
    LET positions == DOMAIN CTR_BENCHMARKS
        first == SetMin(positions)
        last == SetMax(positions)
    IN  IF pos <= 10 * first THEN CTR_BENCHMARKS[first] * CtrUnit
        ELSE IF pos >= 10 * last THEN CTR_BENCHMARKS[last] * CtrUnit
        ELSE LET lower_pos == SetMax({p \in positions : 10 * p <= pos})
                 upper_pos == SetMin({p \in positions : 10 * p >= pos})
             IN  IF lower_pos = upper_pos THEN CTR_BENCHMARKS[lower_pos] * CtrUnit
                 ELSE CTR_BENCHMARKS[lower_pos] * CtrUnit
                      + (pos - 10 * lower_pos)
                        * (CTR_BENCHMARKS[upper_pos] - CTR_BENCHMARKS[lower_pos])
                        * (CtrUnit \div (10 * (upper_pos - lower_pos)))

\* int(impressions * delta_ctr * (30 / 7))
monthly_delta_of(impressions, delta_ctr) ==
    TruncDiv(impressions * delta_ctr, (7 * 1000 * CtrUnit) \div 30)

\* the body of the loop over gsc_pages: the opportunity a page adds, if any
FastRanker(page) ==
    LET pos == Get(page, "position", 0)
        impressions == Get(page, "impressions", 0)
        delta_ctr == CTR_BENCHMARKS[3] * CtrUnit - get_ctr_for_position(pos)
        monthly_delta == monthly_delta_of(impressions, delta_ctr)
        url == Get(page, "page", "")
    IN  IF ~ (40 <= pos /\ pos <= 150) \/ impressions = 0 THEN <<>>
        ELSE IF delta_ctr <= 0 THEN <<>>
        ELSE IF monthly_delta <= 0 THEN <<>>
        ELSE <<[type |-> "fast_ranker", label |-> url, url |-> url,
                current_position |-> pos, target_position |-> 3,
                monthly_delta |-> monthly_delta]>>

\* the body of the loop over gsc_queries; ctr is in tenths of a percent
CtrGap(query) ==
    LET pos == Get(query, "position", 0)
        impressions == Get(query, "impressions", 0)
        ctr_pct == Get(query, "ctr", 0)
        ctr_frac == ctr_pct * CtrUnit
        delta_ctr == get_ctr_for_position(pos) - ctr_frac
        monthly_delta == monthly_delta_of(impressions, delta_ctr)
        kw == Get(query, "query", "")
    IN  IF pos >= 200 \/ impressions = 0 \/ ctr_pct >= 30 THEN <<>>
        ELSE IF delta_ctr <= 0 THEN <<>>
        ELSE IF monthly_delta <= 0 THEN <<>>
        ELSE <<[type |-> "ctr_gap", label |-> kw, keyword |-> kw,
                current_position |-> pos, current_ctr_pct |-> ctr_pct,
                monthly_delta |-> monthly_delta]>>

\* the sum of the monthly deltas of a list of opportunities
RECURSIVE SumDeltas(_)
SumDeltas(opps) ==
    IF opps = <<>> THEN 0 ELSE Head(opps).monthly_delta + SumDeltas(Tail(opps))

\* the aggregation without the ceiling
Capped_not(total) == total

\* min(total, MAX_TOTAL_POTENTIAL)
Capped(total) == IF total < MAX_TOTAL_POTENTIAL THEN total ELSE MAX_TOTAL_POTENTIAL

\* opportunities[:5]
TopK(opps) == SubSeq(opps, 1, IF Len(opps) < 5 THEN Len(opps) ELSE 5)

\* one pass of `for page in gsc_pages`
SEO_Page ==
    /\ seo_pc = "run"
    /\ page_idx <= Len(seo_pages)
    /\ opportunities' = opportunities \o FastRanker(seo_pages[page_idx])
    /\ fast_ranker_total' = fast_ranker_total + SumDeltas(FastRanker(seo_pages[page_idx]))
    /\ page_idx' = page_idx + 1
    /\ UNCHANGED <<seo_pc, seo_pages, seo_queries, query_idx, ctr_gap_total, seo_out,
                   notSeo>>

\* one pass of `for query in gsc_queries`
SEO_Query ==
    /\ seo_pc = "run"
    /\ page_idx > Len(seo_pages)
    /\ query_idx <= Len(seo_queries)
    /\ opportunities' = opportunities \o CtrGap(seo_queries[query_idx])
    /\ ctr_gap_total' = ctr_gap_total + SumDeltas(CtrGap(seo_queries[query_idx]))
    /\ query_idx' = query_idx + 1
    /\ UNCHANGED <<seo_pc, seo_pages, seo_queries, page_idx, fast_ranker_total, seo_out,
                   notSeo>>

\* opportunities.sort(reverse=True); the capped sums; return
SEO_Return ==
    /\ seo_pc = "run"
    /\ page_idx > Len(seo_pages)
    /\ query_idx > Len(seo_queries)
    /\ LET order == StableOrder([i \in DOMAIN opportunities |->
                                    - opportunities[i].monthly_delta])
           sorted == [r \in DOMAIN opportunities |-> opportunities[order[r]]]
       IN  /\ opportunities' = sorted
           /\ seo_out' = [fast_ranker_potential |-> Capped(fast_ranker_total),
                          ctr_gap_potential |-> Capped(ctr_gap_total),
                          total_potential |-> Capped(fast_ranker_total + ctr_gap_total),
                          top_opportunities |-> TopK(sorted)]
    /\ seo_pc' = "returned"
    /\ UNCHANGED <<seo_pages, seo_queries, page_idx, query_idx, fast_ranker_total,
                   ctr_gap_total, notSeo>>

\* pages: (position in tenths, 7-day impressions); the first four are used
\* in lists of any length, the others as a single page
CorePages == {<<40, 1000>>, <<100, 10000>>, <<135, 50000>>, <<40, 1>>}

EdgePages == {<<30, 1000>>, <<150, 10000>>, <<151, 1000>>, <<45, 0>>}

\* queries: (position in tenths, impressions, ctr in tenths of a percent)
CoreQueries == {<<50, 1000, 15>>, <<175, 50000, 0>>, <<100, 1000, 25>>}

EdgeQueries == {<<200, 1000, 0>>, <<50, 1000, 30>>, <<50, 1, 15>>}

\* the name of the n-th page or query
NameOf(n) == [k \in 1..n |-> "u"]

PageAt(n, p) == [page |-> NameOf(n), position |-> p[1], impressions |-> p[2]]

QueryAt(n, q) == [query |-> NameOf(n), position |-> q[1], impressions |-> q[2],
                  ctr |-> q[3]]

MaxPages == 3

MaxQueries == 3

RECURSIVE PageListsOfLen(_)
PageListsOfLen(n) ==
    IF n = 0 THEN {<<>>}
    ELSE {Append(l, PageAt(n, p)) : l \in PageListsOfLen(n - 1), p \in CorePages}

\* lists of core pages, single edge pages, and a page without position
PageListsUpTo(max) ==
    UNION {PageListsOfLen(n) : n \in 0..max}
    \cup {<<PageAt(1, p)>> : p \in EdgePages}
    \cup {<<[page |-> NameOf(1), impressions |-> 1000]>>}

RECURSIVE QueryListsOfLen(_)
QueryListsOfLen(n) ==
    IF n = 0 THEN {<<>>}
    ELSE {Append(l, QueryAt(n, q)) : l \in QueryListsOfLen(n - 1), q \in CoreQueries}

\* lists of core queries, single edge queries, and a query without position
QueryListsUpTo(max) ==
    UNION {QueryListsOfLen(n) : n \in 0..max}
    \cup {<<QueryAt(1, q)>> : q \in EdgeQueries}
    \cup {<<[query |-> NameOf(1), impressions |-> 1000, ctr |-> 0]>>}

SeoInit ==
    /\ seo_pc = "run"
    /\ seo_pages \in PageListsUpTo(MaxPages)
    /\ seo_queries \in QueryListsUpTo(MaxQueries)
    /\ page_idx = 1
    /\ query_idx = 1
    /\ opportunities = <<>>
    /\ fast_ranker_total = 0
    /\ ctr_gap_total = 0
    /\ seo_out = EmptyDict

SeoIdle ==
    /\ seo_pc = "idle"
    /\ seo_pages = <<>>
    /\ seo_queries = <<>>
    /\ page_idx = 1
    /\ query_idx = 1
    /\ opportunities = <<>>
    /\ fast_ranker_total = 0
    /\ ctr_gap_total = 0
    /\ seo_out = EmptyDict

SeoNext ==
    \/ SEO_Page
    \/ SEO_Query
    \/ SEO_Return

---------------------------------------------------------------------------
(* pipeline.run after the fetches (lines 234-305) and the run history      *)
(* (_save_ideas_history).  The history file is a record: kind "absent"     *)
(* (no file), "invalid" (not JSON), "object" (JSON, but not a list) or     *)
(* "list" with its entries, oldest first.                                  *)

\* `history = history[-30:]`
KEEP_LAST_RUNS == 30

\* s[-n:]
LastN(s, n) == IF Len(s) <= n THEN s ELSE SubSeq(s, Len(s) - n + 1, Len(s))

\* A variant that keeps the oldest runs, s[:n].
pruned_oldest(history) ==
    IF Len(history) <= KEEP_LAST_RUNS THEN history ELSE SubSeq(history, 1, KEEP_LAST_RUNS)

\* `history = history[-30:]`
pruned(history) == LastN(history, KEEP_LAST_RUNS)

\* entry = {"generated_at": datetime.now().isoformat(), "ideas": ideas}
HistoryEntry(generated_at, batch) == [generated_at |-> generated_at, ideas |-> batch]

\* The ways one call can go: "ok", or the step that raises: "mkdir"
\* (parent.mkdir), "read" (read_text, only when the file exists), "open"
\* (write_text raises before the file is touched) or "write" (write_text
\* raises after the file was truncated).
IoOutcomes(store) ==
    {"ok", "mkdir", "open", "write"} \cup (IF store.kind = "absent" THEN {} ELSE {"read"})

\* the local `history` after lines 71-76: the inner except turns a failed
\* read and invalid JSON into []
LoadedHistory(store, io) ==
    IF store.kind = "absent" \/ store.kind = "invalid" \/ io = "read"
    THEN [kind |-> "list", entries |-> <<>>]
    ELSE store

\* whether the call reaches the end of write_text; history.append raises
\* on JSON that is not a list, and the outer except swallows every failure
Written(store, io) ==
    /\ io \in {"ok", "read"}
    /\ LoadedHistory(store, io).kind = "list"

\* _save_ideas_history: the history file after the call
save_ideas_history(store, batch, generated_at, io) ==
    IF Written(store, io)
    THEN [kind |-> "list",
          entries |-> pruned(Append(LoadedHistory(store, io).entries,
                                    HistoryEntry(generated_at, batch)))]
    ELSE IF io = "write" /\ LoadedHistory(store, io).kind = "list"
    THEN [kind |-> "invalid", entries |-> <<>>]
    ELSE store

\* a list of k entries written before the first call modelled, oldest first
StoredList(k) ==
    [kind |-> "list", entries |-> [i \in 1..k |-> HistoryEntry(i - k, <<"old">>)]]

MaxStored == 31

\* the history files a run can find
HistoryFiles(max) ==
    {[kind |-> k, entries |-> <<>>] : k \in {"absent", "invalid", "object"}}
    \cup {StoredList(k) : k \in {0, 1, 2} \cup ((max - 2)..max)}

MaxSaves == 32

\* the ideas of the n-th call
BatchOf(n) == <<n>>

\* Lines 300-302 of successive runs with non-empty ideas: one call of
\* _save_ideas_history.  At most one call of a behaviour fails on I/O; a
\* call succeeds when every step of it does.
HIST_Save ==
    /\ run_pc = "saving"
    /\ hist_calls < MaxSaves
    /\ \E io \in IoOutcomes(history_file) :
          /\ io # "ok" => hist_clean
          /\ history_file' =
                save_ideas_history(history_file, BatchOf(hist_calls + 1), hist_calls + 1, io)
          /\ LET succeeded == io = "ok" /\ Written(history_file, io)
             IN  /\ hist_saved' =
                       IF succeeded
                       THEN Append(hist_saved,
                                   HistoryEntry(hist_calls + 1, BatchOf(hist_calls + 1)))
                       ELSE hist_saved
                 /\ hist_clean' = (hist_clean /\ succeeded)
    /\ hist_calls' = hist_calls + 1
    /\ UNCHANGED <<run_pc, hist_initial, run_result, run_failed, notTail>>

\* the fields of PipelineResult set after the fetches
TailResult ==
    [errors |-> <<>>, seo_potential |-> "", crawled_pages |-> "",
     analyst_output |-> "", trend_scout_output |-> "", strategist_output |-> "",
     ideas |-> <<>>]

\* One try/except step of pipeline.run: the collaborator returns or raises;
\* the except branch appends the error and sets the fallback output.
TryStep(at, next, who, label, field, value, fallback) ==
    /\ run_pc = at
    /\ \E raises \in BOOLEAN :
          IF raises
          THEN /\ run_result' = [run_result EXCEPT
                                    !.errors = Append(@, ErrorString(label, <<>>)),
                                    ![field] = fallback]
               /\ run_failed' = run_failed \cup {who}
          ELSE /\ run_result' = [run_result EXCEPT ![field] = value]
               /\ UNCHANGED run_failed
    /\ run_pc' = next
    /\ UNCHANGED <<history_file, hist_initial, hist_saved, hist_calls, hist_clean, notTail>>

\* Lines 234-240: the traffic estimator.
PL_SeoPotential ==
    TryStep("seo_potential", "crawler", "traffic_estimator", "SEO-Potenzial-Fehler",
            "seo_potential", "potential", "")

\* Lines 242-252: the crawler, only with GA4 pages and a site URL.
PL_Crawler ==
    \/ TryStep("crawler", "analyst", "crawler", "Crawler-Fehler",
               "crawled_pages", "crawled", "")
    \/ /\ run_pc = "crawler"
       /\ run_pc' = "analyst"
       /\ UNCHANGED <<run_result, run_failed, history_file, hist_initial, hist_saved,
                      hist_calls, hist_clean, notTail>>

\* Lines 254-267: the analyst.
PL_Analyst ==
    TryStep("analyst", "trend_scout", "analyst", "Analyst-Agent Fehler",
            "analyst_output", "analysis", "Keine Analyse verfuegbar.")

\* Lines 269-278: the trend scout.
PL_TrendScout ==
    TryStep("trend_scout", "strategist", "trend_scout", "Trend-Scout-Agent Fehler",
            "trend_scout_output", "trends", "Keine Trend-Analyse verfuegbar.")

\* Lines 280-291: the strategist.
PL_Strategist ==
    TryStep("strategist", "editor", "strategist", "Strategen-Agent Fehler",
            "strategist_output", "strategy", "Keine Strategie verfuegbar.")

\* Lines 293-298: the editor; it may return no ideas, and a failure leaves
\* result.ideas empty.
PL_Editor ==
    \E batch \in {<<>>, <<"idea">>} :
        TryStep("editor", "history", "editor", "Redakteur-Agent Fehler",
                "ideas", batch, <<>>)

\* Lines 300-305: persist the ideas, if any, and return the result.
PL_History ==
    /\ run_pc = "history"
    /\ IF run_result.ideas # <<>>
       THEN \E io \in IoOutcomes(history_file) :
               /\ history_file' =
                     save_ideas_history(history_file, run_result.ideas, hist_calls + 1, io)
               /\ hist_calls' = hist_calls + 1
               /\ run_failed' =
                     IF io = "ok" /\ Written(history_file, io)
                     THEN run_failed
                     ELSE run_failed \cup {"history_sink"}
       ELSE UNCHANGED <<history_file, hist_calls, run_failed>>
    /\ run_pc' = "returned"
    /\ UNCHANGED <<run_result, hist_initial, hist_saved, hist_clean, notTail>>

HistInit ==
    /\ run_pc = "saving"
    /\ history_file \in HistoryFiles(MaxStored)
    /\ hist_initial = history_file
    /\ hist_saved = <<>>
    /\ hist_calls = 0
    /\ hist_clean = TRUE
    /\ run_result = TailResult
    /\ run_failed = {}

TailInit ==
    /\ run_pc = "seo_potential"
    /\ history_file \in HistoryFiles(MaxStored)
    /\ hist_initial = history_file
    /\ hist_saved = <<>>
    /\ hist_calls = 0
    /\ hist_clean = TRUE
    /\ run_result = TailResult
    /\ run_failed = {}

TailIdle ==
    /\ run_pc = "idle"
    /\ history_file = [kind |-> "absent", entries |-> <<>>]
    /\ hist_initial = history_file
    /\ hist_saved = <<>>
    /\ hist_calls = 0
    /\ hist_clean = TRUE
    /\ run_result = TailResult
    /\ run_failed = {}

HistNext == HIST_Save

TailNext ==
    \/ PL_SeoPotential
    \/ PL_Crawler
    \/ PL_Analyst
    \/ PL_TrendScout
    \/ PL_Strategist
    \/ PL_Editor
    \/ PL_History

---------------------------------------------------------------------------
(* agents/idea_evaluator.run on one service response, and step 3 of        *)
(* evaluation_pipeline.run, which stores what it returned.                 *)

\* The four score keys, in the order idea_evaluator.run reads them.
IdeaScoreKeys == <<"aktualitaet", "nachfrage", "einzigartigkeit", "relevanz">>

\* JSON values of the "score" key, tagged with their type: an integer, a
\* non-negative float in tenths, a text that is no number.
JsonInt(n) == [type |-> "int", tenths |-> 10 * n]

JsonFloat(tenths) == [type |-> "float", tenths |-> tenths]

JsonText == [type |-> "str", tenths |-> 0]

\* int(x) raises ValueError for a text that is no number
int_raises(x) == x.type = "str"

\* int(x) of a non-negative number: truncation
py_int(x) == x.tenths \div 10

\* dims of idea_evaluator.run: scores.get(key, 0) for the four keys
dims(scores) == [i \in 1..4 |-> Get(scores, IdeaScoreKeys[i], 0)]

\* computed_score = round(sum(dims) / len(dims))
computed_score(scores) == PyRoundQuarter(SumSeq(dims(scores)))

\* the verdict enforced from the score
verdict_of(score) ==
    IF score >= 70 THEN "Empfohlen"
    ELSE IF score >= 45 THEN "Mit Vorbehalt"
    ELSE "Nicht empfohlen"

\* idea_evaluator.run after json.loads: the returned dictionary
idea_evaluator_run(data) ==
    LET scores == Get(data, "scores", EmptyDict)
        score  == py_int(Get(data, "score", JsonInt(computed_score(scores))))
    IN  [verdict |-> verdict_of(score), score |-> score]

\* idea_evaluator.run raises: the service call or int() of the reported score
idea_evaluator_raises(service, data) ==
    \/ service = "raises"
    \/ "score" \in DOMAIN data /\ int_raises(data["score"])

\* The responses of the service: four integer scores, each present or
\* missing, or no "scores" at all; a reported score or none; a reported
\* verdict or none.
IdeaDimScores == {40, 70, 71}

IdeaReportedScores ==
    {JsonInt(44), JsonInt(45), JsonInt(69), JsonInt(70), JsonFloat(699), JsonText}

IdeaReportedVerdicts == {"Empfohlen", "Nicht empfohlen"}

IdeaScoreDicts ==
    LET keys == {IdeaScoreKeys[i] : i \in 1..4}
    IN  UNION {[ks -> IdeaDimScores] : ks \in SUBSET keys}

IdeaResponses ==
    LET withScores == {[scores |-> sc] : sc \in IdeaScoreDicts} \cup {EmptyDict}
        withScore  == withScores \cup
                      {[k \in DOMAIN d \cup {"score"} |->
                           IF k = "score" THEN x ELSE d[k]] :
                       d \in withScores, x \in IdeaReportedScores}
    IN  withScore \cup
        {[k \in DOMAIN d \cup {"verdict"} |->
             IF k = "verdict" THEN v ELSE d[k]] :
         d \in withScore, v \in IdeaReportedVerdicts}

\* EvaluationResult() as constructed, with the fields step 3 sets
EvaluationResult == [verdict |-> "", score |-> 0, errors |-> <<>>]

IdeaInit ==
    /\ idea_pc = "call"
    /\ idea_service \in {"responds", "raises"}
    /\ idea_data \in IdeaResponses
    /\ idea_evaluation = [raised |-> FALSE, value |-> EmptyDict]
    /\ idea_result = EvaluationResult

IdeaIdle ==
    /\ idea_pc = "idle"
    /\ idea_service = "responds"
    /\ idea_data = EmptyDict
    /\ idea_evaluation = [raised |-> FALSE, value |-> EmptyDict]
    /\ idea_result = EvaluationResult

\* idea_evaluator_agent.run(client, idea_title, idea_desc, context)
IE_Run ==
    /\ idea_pc = "call"
    /\ idea_evaluation' =
          IF idea_evaluator_raises(idea_service, idea_data)
          THEN [raised |-> TRUE, value |-> EmptyDict]
          ELSE [raised |-> FALSE, value |-> idea_evaluator_run(idea_data)]
    /\ idea_pc' = "returned"
    /\ UNCHANGED <<idea_service, idea_data, idea_result, notIdea>>

\* step 3 of evaluation_pipeline.run: the fields of the result, or the error
EP_Store ==
    /\ idea_pc = "returned"
    /\ idea_result' =
          IF idea_evaluation.raised
          THEN [idea_result EXCEPT
                   !.errors = Append(@, "Bewertungs-Agent Fehler")]
          ELSE [idea_result EXCEPT
                   !.verdict = Get(idea_evaluation.value, "verdict", ""),
                   !.score = Get(idea_evaluation.value, "score", 0)]
    /\ idea_pc' = "stored"
    /\ UNCHANGED <<idea_service, idea_data, idea_evaluation, notIdea>>

IdeaNext ==
    \/ IE_Run
    \/ EP_Store

---------------------------------------------------------------------------
(* The specifications.                                                     *)

InitRevision == RevInit /\ EvIdle /\ FanIdle /\ EdIdle /\ UrgIdle /\ CalIdle /\ SeoIdle /\ TailIdle /\ IdeaIdle

SpecRevision == InitRevision /\ [][RevNext]_vars

InitEvaluator == EvInit /\ RevIdle /\ FanIdle /\ EdIdle /\ UrgIdle /\ CalIdle /\ SeoIdle /\ TailIdle /\ IdeaIdle

InitFanout == FanInit /\ RevIdle /\ EvIdle /\ EdIdle /\ UrgIdle /\ CalIdle /\ SeoIdle /\ TailIdle /\ IdeaIdle

SpecFanout == InitFanout /\ [][FanNext]_vars

SpecEvaluator == InitEvaluator /\ [][EvNext]_vars

InitScorer == EdInit /\ RevIdle /\ EvIdle /\ FanIdle /\ UrgIdle /\ CalIdle /\ SeoIdle /\ TailIdle /\ IdeaIdle

SpecScorer == InitScorer /\ [][EdNext]_vars

InitUrgency == UrgInit /\ RevIdle /\ EvIdle /\ FanIdle /\ EdIdle /\ CalIdle /\ SeoIdle /\ TailIdle /\ IdeaIdle

SpecUrgency == InitUrgency /\ [][UrgNext]_vars

InitCalendar == CalInit /\ RevIdle /\ EvIdle /\ FanIdle /\ EdIdle /\ UrgIdle /\ SeoIdle /\ TailIdle /\ IdeaIdle

SpecCalendar == InitCalendar /\ [][CalNext]_vars

InitSeo == SeoInit /\ RevIdle /\ EvIdle /\ FanIdle /\ EdIdle /\ UrgIdle /\ CalIdle /\ TailIdle /\ IdeaIdle

SpecSeo == InitSeo /\ [][SeoNext]_vars

InitHistory ==
    HistInit /\ RevIdle /\ EvIdle /\ FanIdle /\ EdIdle /\ UrgIdle /\ CalIdle /\ SeoIdle /\ IdeaIdle

SpecHistory == InitHistory /\ [][HistNext]_vars

InitTail ==
    TailInit /\ RevIdle /\ EvIdle /\ FanIdle /\ EdIdle /\ UrgIdle /\ CalIdle /\ SeoIdle /\ IdeaIdle

SpecTail == InitTail /\ [][TailNext]_vars

InitIdea ==
    IdeaInit /\ RevIdle /\ EvIdle /\ FanIdle /\ EdIdle /\ UrgIdle /\ CalIdle /\ SeoIdle /\ TailIdle

SpecIdea == InitIdea /\ [][IdeaNext]_vars

---------------------------------------------------------------------------
(* Properties of the revision loop (content_pipeline.run).                 *)

\* the number of calls made to one collaborator so far
CallCount(agent) == Cardinality({i \in DOMAIN calls : calls[i].agent = agent})

LoopAgents == {"writer", "fact_checker", "evaluator"}

\* the calls made to the three loop collaborators so far
LoopCalls == SelectSeq(calls, LAMBDA c : c.agent \in LoopAgents)

\* C1: whatever the writer, fact-checker and evaluator do (any scores, any
\* feedback, any failure), each of them is called at most
\* MAX_REVISION_LOOPS + 1 times (3 with the default of 2).
C1_AtMostThreePasses ==
    /\ MAX_REVISION_LOOPS = 2
    /\ \A agent \in LoopAgents : CallCount(agent) <= MAX_REVISION_LOOPS + 1

\* C1 witness: a run that returned after using the whole budget.
C1_Witness ==
    /\ content_pc = "returned"
    /\ \A agent \in LoopAgents : CallCount(agent) = MAX_REVISION_LOOPS + 1

\* C2: once a pass has been stored whose assessment has passed = true, no
\* further writer, fact-checker or evaluator call is made and the stored
\* article, evaluation and revision count stay those of that pass, whose
\* draft and scoring they are.
C2_StopsAtFirstPassed ==
    [][ Get(content_result.evaluation, "passed", FALSE) =>
          /\ LoopCalls' = LoopCalls
          /\ content_result'.article = content_result.article
          /\ content_result'.evaluation = content_result.evaluation
          /\ content_result'.revision_count = content_result.revision_count
          /\ content_result.article.draft_of_pass = content_result.revision_count
          /\ LoopCalls[Len(LoopCalls)].agent = "evaluator"
          /\ LoopCalls[Len(LoopCalls)].pass = content_result.revision_count
      ]_vars

\* C2 witness: the run returned with a passed assessment obtained on the
\* second pass, after a first pass that did not pass.
C2_Witness ==
    /\ content_pc = "returned"
    /\ Get(content_result.evaluation, "passed", FALSE)
    /\ content_result.revision_count = 1
    /\ CallCount("writer") = 2

---------------------------------------------------------------------------
(* Properties of the quality gate (agents/evaluator.run).                  *)

\* the four scores the service sent, a missing one counted as 0
SentScores == [i \in 1..4 |-> IF ScoreKeys[i] \in DOMAIN ev_raw.scores
                               THEN ev_raw.scores[ScoreKeys[i]] ELSE 0]

\* n is an integer nearest to total/4
NearestToMean(n, total) == 4 * n - total <= 2 /\ total - 4 * n <= 2

\* C3: for all four dimension scores and every overall/passed pair the
\* service reports, the returned overall is the rounded mean of the four
\* scores, passed is overall >= EVALUATOR_MIN_SCORE = 80, and the loop's
\* decision is that recomputed passed; scores 90, 82, 77, 95 give overall
\* 86 and passed = true.
C3_GateRecomputed ==
    ev_pc \in {"returned", "gated"} =>
        /\ EVALUATOR_MIN_SCORE = 80
        /\ NearestToMean(ev_out.overall, SumSeq(SentScores))
        /\ ev_out.passed = (ev_out.overall >= 80)
        /\ ev_pc = "gated" => (ev_gate = "Passed") = (ev_out.overall >= 80)
        /\ SentScores = <<90, 82, 77, 95>> => ev_out.overall = 86 /\ ev_out.passed

\* C3 witness: the example scores, reported by the service as overall 0 and
\* passed = false, and read by the loop as Passed.
C3_Witness ==
    /\ ev_pc = "gated"
    /\ SentScores = <<90, 82, 77, 95>>
    /\ ev_raw.overall = 0 /\ ev_raw.passed = FALSE
    /\ ev_gate = "Passed"

---------------------------------------------------------------------------
(* Properties of the fetch fan-out (pipeline.run).                         *)

\* the data pipeline.run returns for the i-th fetch of fetch_map
MergedData(i) == pipeline_result[FieldOf(fetch_map[i])]

\* the error strings recorded for the i-th fetch
ErrorsOf(i) == SelectSeq(pipeline_result.errors, LAMBDA e : e.label = fetch_map[i])

\* C4: for every subset of the seven fetches that raise, when the fan-out
\* has merged its results every raising source has an empty list and exactly
\* one error string carrying its label, every source whose fetch returned
\* before the deadline (here: not after it) holds exactly the data that
\* fetch returned, and run has not raised.
C4_PartialFailureIsolated ==
    /\ fan_pc # "raised"
    /\ fan_pc = "seo_potential" =>
          \A i \in 1..NumFetches :
             /\ worker[i] = "raised" =>
                   /\ MergedData(i) = <<>>
                   /\ Len(ErrorsOf(i)) = 1
             /\ (worker[i] = "returned" /\ i \notin returned_late) =>
                   /\ MergedData(i) = IF ShortCircuited(fetch_map[i])
                                      THEN <<>> ELSE <<[source |-> fetch_map[i]]>>
                   /\ Len(ErrorsOf(i)) = 0

\* C4 witness: merged results in which one fetch raised, another timed out
\* and a third returned client data before the deadline.
C4_Witness ==
    /\ fan_pc = "seo_potential"
    /\ \E i, j, k \in 1..NumFetches :
          /\ worker[i] = "raised"
          /\ worker[j] = "returned" /\ j \notin returned_late /\ MergedData(j) # <<>>
          /\ worker[k] = "finished" /\ Len(ErrorsOf(k)) = 1

\* C5: a fetch that never completes does not block the fan-out (once the
\* loop over fetch_map has ended, leaving the executor does not depend on a
\* worker still running; its slot is an empty result with a timeout error),
\* and a result produced after the deadline is never written into the
\* merged signal set.
C5_NeverBlocksNeverLate ==
    /\ fan_pc = "shutdown" => ENABLED FAN_Shutdown
    /\ \A i \in 1..NumFetches :
          (fan_pc \in {"shutdown", "seo_potential"} /\ worker[i] = "running") =>
              /\ fetched[i] = <<>>
              /\ Len(ErrorsOf(i)) = 1
    /\ \A i \in returned_late : fetched[i] = <<>>

---------------------------------------------------------------------------
(* Properties of the confidence tier (agents/editor.py).                   *)

\* the evidence map of an item as it was parsed (empty when the item has none)
ParsedSignals(item) ==
    IF "signals" \in DOMAIN item /\ item.signals # NotADict THEN item.signals
    ELSE EmptyDict

\* how many of ga4, gsc, rss are present with a non-empty value
NonEmptyCount(signals) ==
    Cardinality({k \in {"ga4", "gsc", "rss"} :
                    k \in DOMAIN signals /\ signals[k] # <<>> /\ signals[k] # NoneValue})

\* the parsed candidate a returned item was made from
ParsedItem(item) ==
    CHOOSE c \in {candidate_list[i] : i \in DOMAIN candidate_list} :
        c # NotADict /\ c.title = item.title

\* C6: every item the editor has scored carries tier A when all three of
\* ga4, gsc, rss are non-empty in its evidence map, B when exactly two
\* are, and C when at most one is; a missing key, null and the empty text
\* count as empty.
C6_TierByEvidenceCount ==
    \A i \in DOMAIN ed_result :
        LET n == NonEmptyCount(ParsedSignals(ParsedItem(ed_result[i])))
        IN  ed_result[i].score = IF n = 3 THEN "A" ELSE IF n = 2 THEN "B" ELSE "C"

\* C6 witness: a returned list with a tier-A item and a tier-B item whose
\* evidence map came without the rss key.
C6_Witness ==
    /\ ed_pc = "returned"
    /\ \E i, j \in DOMAIN ed_result :
          /\ ed_result[i].score = "A"
          /\ ed_result[j].score = "B"
          /\ "signals" \in DOMAIN ParsedItem(ed_result[j])
          /\ "rss" \notin DOMAIN ParsedSignals(ParsedItem(ed_result[j]))

---------------------------------------------------------------------------
(* Properties of the calendar (calendar_planner.generate_content_calendar).*)

\* the number of entries of a week
Count(w) == Len(WeekItems(calendar, w))

Placed == cal_pc \in {"phase2", "phase3", "returned"}

\* C7: every entry's week is in 1..4 at every point of placement,
\* redistribution and date assignment, and once placement is done the
\* calendar has exactly one entry per input idea.
C7_CountConservedWeeksInRange ==
    /\ \A i \in DOMAIN calendar : calendar[i].week \in 1..4
    /\ Placed =>
          /\ Len(calendar) = Len(ideas)
          /\ \A p \in DOMAIN ideas :
                Cardinality({i \in DOMAIN calendar : calendar[i].idea = p}) = 1

\* C7 witness: a returned calendar that went through a redistribution move
\* and holds more than three entries in week 4.
C7_Witness ==
    /\ cal_pc = "returned"
    /\ moves > 0
    /\ Count(4) > 3

\* the ideas whose urgency is 4
TargetWeek4 == Cardinality({i \in DOMAIN calendar : calendar[i].urgency = 4})

\* the ideas of urgency 1..3 that phase 1 put into week 4
SpilledPastWeek3 == week_slot_counters[4] - TargetWeek4

\* C8 as stated: weeks 1..3 hold at most 3 entries, and week 4 holds more
\* than 3 exactly when an idea spilled past a full week 3 or more than
\* three ideas target week 4.
C8_OverflowExactlyOnSpill ==
    /\ \A w \in 1..3 : Count(w) <= 3
    /\ Placed => (Count(4) > 3 <=> (SpilledPastWeek3 > 0 \/ TargetWeek4 > 3))

\* C8, amended: weeks 1..3 hold at most 3 entries at every point; after
\* placement and after every redistribution move week 4 holds more than 3
\* only if an idea spilled past a full week 3 or more than three ideas
\* target week 4, and exactly when the ideas that spilled past week 3
\* together with the ideas that target week 4 are more than three.
C8_OverflowOnlyInWeek4 ==
    /\ \A w \in 1..3 : Count(w) <= 3
    /\ Placed =>
          /\ Count(4) > 3 => (SpilledPastWeek3 > 0 \/ TargetWeek4 > 3)
          /\ Count(4) > 3 <=> SpilledPastWeek3 + TargetWeek4 > 3

\* C8 witness: after placement week 3 is full and week 4 holds more than
\* three entries, one of them spilled from week 3.
C8_Witness ==
    /\ Placed
    /\ Count(3) = 3
    /\ SpilledPastWeek3 > 0
    /\ Count(4) > 3

\* no week 1..3 holds two or more entries while the next week is empty
NoGap == \A w \in 1..3 : ~ (Count(w) >= 2 /\ Count(w + 1) = 0)

\* the sum of the weeks of all entries
WeekSum == Count(1) + 2 * Count(2) + 3 * Count(3) + 4 * Count(4)

\* C9: the redistribution loop ends (every pass either ends it or moves one
\* entry one week later, and no entry can be later than week 4), and from
\* then on, so in the returned calendar, no week 1..3 holds two or more
\* entries while the next week holds none.
C9_RedistributionSettles ==
    /\ [](cal_pc \in {"phase3", "returned"} => NoGap)
    /\ [](WeekSum <= 4 * Len(ideas))
    /\ [][cal_pc = "phase2" => (cal_pc' = "phase3" \/ WeekSum' > WeekSum)]_vars

\* C9 witness: a returned calendar reached through a cascade of two moves.
C9_Witness ==
    /\ cal_pc = "returned"
    /\ moves >= 2

\* the calendar entry of the idea at a position of `ideas`
EntryOf(p) == calendar[CHOOSE i \in DOMAIN calendar : calendar[i].idea = p]

\* a tier-A idea with all three evidence fields populated whose title
\* contains a trend keyword, ignoring case
TitleMatchesTrendTierA(idea) ==
    /\ "score" \in DOMAIN idea /\ idea.score = "A"
    /\ \A k \in {"ga4", "gsc", "rss"} :
          k \in DOMAIN idea.signals /\ idea.signals[k] # <<>> /\ idea.signals[k] # NoneValue
    /\ \E n \in DOMAIN CalendarTrends :
          /\ CalendarTrends[n].keyword # <<>>
          /\ In(lower(CalendarTrends[n].keyword), lower(idea.title))

\* C11: in the returned calendar the first idea in input order that is tier
\* A with three populated evidence fields and a title matching a trend
\* keyword has urgency 1, week 1 and the first slot of week 1: its publish
\* date is the next Monday after today (1 to 7 days ahead, a Monday).
C11_FirstUrgentIdeaOpensWeek1 ==
    cal_pc = "returned" =>
        \A p \in DOMAIN ideas :
            (/\ TitleMatchesTrendTierA(ideas[p])
             /\ \A q \in 1..(p - 1) : EntryOf(q).urgency # 1) =>
                /\ EntryOf(p).urgency = 1
                /\ EntryOf(p).week = 1
                /\ EntryOf(p).publish_date = monday
                /\ monday \in 1..7
                /\ (today + monday) % 7 = 0

\* C11 witness: a calendar returned on a Monday with more urgency-1 ideas
\* than week 1 has slots, the first of them not first in the input.
C11_Witness ==
    /\ cal_pc = "returned"
    /\ today = 0
    /\ Cardinality({p \in DOMAIN ideas : EntryOf(p).urgency = 1}) > 3
    /\ ~ TitleMatchesTrendTierA(ideas[1])

---------------------------------------------------------------------------
(* Properties of the urgency (calendar_planner._urgency).                  *)

\* the idea's tier, "none" when it has no score
Tier == IF "score" \in DOMAIN urg_idea THEN urg_idea.score ELSE "none"

\* the idea's title and the text of its evidence map
TitleText == IF "title" \in DOMAIN urg_idea THEN urg_idea.title ELSE <<>>

EvidenceText ==
    py_str_signals(IF "signals" \in DOMAIN urg_idea THEN urg_idea.signals ELSE EmptyDict)

\* some non-empty trend keyword occurs, ignoring case, in the title or in
\* the evidence text
MatchesTrend ==
    \E n \in DOMAIN urg_trends :
        /\ "keyword" \in DOMAIN urg_trends[n]
        /\ urg_trends[n].keyword # <<>>
        /\ \/ In(lower(urg_trends[n].keyword), lower(TitleText))
           \/ In(lower(urg_trends[n].keyword), lower(EvidenceText))

\* the rss evidence field is longer than 20 characters
LongRss ==
    /\ "signals" \in DOMAIN urg_idea
    /\ "rss" \in DOMAIN urg_idea.signals
    /\ urg_idea.signals.rss # NoneValue
    /\ Len(urg_idea.signals.rss) > 20

\* C10: each call of _urgency for an idea and trend keywords returns 1 for
\* tier A with a trend match or an rss field longer than 20 characters,
\* 2 for tier A otherwise, 3 for tier B and 4 for any other or missing
\* tier; a match or a long rss field never changes the 3 or 4.
C10_UrgencyByTier ==
    urg_pc \in {"returned", "returned again"} =>
        urg_out = IF Tier = "A" /\ (MatchesTrend \/ LongRss) THEN 1
                  ELSE IF Tier = "A" THEN 2
                  ELSE IF Tier = "B" THEN 3
                  ELSE 4

\* C10 witness: a tier-A idea classified 1, called for the second time,
\* whose only match is a keyword found in the evidence text and not in the
\* title, with an rss field of at most 20 characters.
C10_Witness ==
    /\ urg_pc = "returned again"
    /\ Tier = "A" /\ urg_out = 1
    /\ ~ LongRss
    /\ MatchesTrend
    /\ \A n \in DOMAIN urg_trends :
          ("keyword" \in DOMAIN urg_trends[n] /\ urg_trends[n].keyword # <<>>) =>
              /\ ~ In(lower(urg_trends[n].keyword), lower(TitleText))
              /\ urg_trends[n].keyword = lower(ETF)

---------------------------------------------------------------------------
(* Properties of the traffic potential (seo_potential.py).                 *)

\* the fast_ranker opportunities recorded for a page
RecordedFor(page) ==
    {i \in DOMAIN opportunities :
        opportunities[i].type = "fast_ranker" /\ opportunities[i].url = page.page}

\* the position-3 benchmark and the benchmark at a page's position
TargetCtr == CTR_BENCHMARKS[3] * CtrUnit

\* C12: of the pages processed so far, a page at position 3 has no
\* fast_ranker opportunity (nothing added), and every page with position
\* in [4, 15], nonzero impressions and a benchmark CTR below the
\* position-3 benchmark has a fast_ranker opportunity whose monthly delta
\* is > 0 and is impressions x (CTR(3) - CTR(position)) x 30/7 in whole
\* clicks.
C12_FastRankerRecorded ==
    \A n \in 1..(page_idx - 1) :
        LET page == seo_pages[n]
            pos == IF "position" \in DOMAIN page THEN page.position ELSE 0
        IN  /\ pos = 30 => RecordedFor(page) = {}
            /\ (/\ 40 <= pos /\ pos <= 150
                /\ page.impressions # 0
                /\ get_ctr_for_position(pos) < TargetCtr) =>
                  \E i \in RecordedFor(page) :
                      /\ opportunities[i].monthly_delta > 0
                      /\ opportunities[i].monthly_delta =
                            (page.impressions * (TargetCtr - get_ctr_for_position(pos)))
                                \div ((7 * 1000 * CtrUnit) \div 30)

\* the opportunities of one type, all of them (not only the top five)
OppsOfType(t) == SelectSeq(opportunities, LAMBDA o : o.type = t)

Least(a, b) == IF a <= b THEN a ELSE b

\* C13: in the returned dictionary fast_ranker_potential, ctr_gap_potential
\* and total_potential are each in 0..MAX_TOTAL_POTENTIAL; the first is the
\* capped sum of the monthly deltas of all fast_ranker opportunities, the
\* second that of all ctr_gap opportunities, the third the capped sum of
\* both, which never exceeds the first two added.
C13_PotentialsCapped ==
    seo_pc = "returned" =>
        LET fast == SumDeltas(OppsOfType("fast_ranker"))
            gap == SumDeltas(OppsOfType("ctr_gap"))
        IN  /\ seo_out.fast_ranker_potential = Least(fast, MAX_TOTAL_POTENTIAL)
            /\ seo_out.ctr_gap_potential = Least(gap, MAX_TOTAL_POTENTIAL)
            /\ seo_out.total_potential = Least(fast + gap, MAX_TOTAL_POTENTIAL)
            /\ \A k \in {"fast_ranker_potential", "ctr_gap_potential", "total_potential"} :
                  seo_out[k] \in 0..MAX_TOTAL_POTENTIAL
            /\ seo_out.total_potential
                  <= seo_out.fast_ranker_potential + seo_out.ctr_gap_potential

\* C13 witness: six opportunities, the fast-ranker sum above the ceiling,
\* the ctr-gap sum below it, only five opportunities returned.
C13_Witness ==
    /\ seo_pc = "returned"
    /\ Len(opportunities) > 5
    /\ Len(seo_out.top_opportunities) = 5
    /\ fast_ranker_total > MAX_TOTAL_POTENTIAL
    /\ ctr_gap_total \in 1..(MAX_TOTAL_POTENTIAL - 1)
    /\ seo_out.total_potential = MAX_TOTAL_POTENTIAL

---------------------------------------------------------------------------
(* Properties of the run history and of pipeline.run after the fetches.    *)

\* the entries of the history file before the first call
InitialEntries == IF hist_initial.kind = "list" THEN hist_initial.entries ELSE <<>>

\* C14 as stated: after n successful calls of _save_ideas_history and no
\* other, starting from no file or a valid one, the history has min(n, 30)
\* entries, the most recently saved batches in the order written.
C14_HistoryHasMinOfCallsAnd30 ==
    (hist_clean /\ hist_calls > 0 /\ hist_initial.kind \in {"absent", "list"}) =>
        /\ history_file.kind = "list"
        /\ Len(history_file.entries) = Least(hist_calls, KEEP_LAST_RUNS)
        /\ \A i \in 1..Len(history_file.entries) :
              history_file.entries[i] =
                 hist_saved[Len(hist_saved) - Len(history_file.entries) + i]

\* C14, amended: after n successful calls of _save_ideas_history and no
\* other, starting from a file with k entries (k = 0 for no file or an
\* unreadable one), the history has min(k + n, 30) entries: the last ones
\* of the k stored entries followed by the n saved batches, in that order,
\* none reordered or rewritten.
C14_HistoryKeepsLatestRuns ==
    (hist_clean /\ hist_calls > 0) =>
        LET all == InitialEntries \o hist_saved
            kept == history_file.entries
        IN  /\ history_file.kind = "list"
            /\ Len(hist_saved) = hist_calls
            /\ Len(kept) = Least(Len(InitialEntries) + hist_calls, KEEP_LAST_RUNS)
            /\ \A i \in 1..Len(kept) : kept[i] = all[Len(all) - Len(kept) + i]

\* C14 witness: more than 30 successful calls on a file that held entries;
\* every stored entry and the first saved batches have been dropped.
C14_Witness ==
    /\ hist_clean
    /\ hist_calls > KEEP_LAST_RUNS
    /\ Len(InitialEntries) > 0
    /\ history_file.entries[1] = hist_saved[hist_calls - KEEP_LAST_RUNS + 1]

\* the error string each collaborator's except branch appends
ErrorLabel ==
    [traffic_estimator |-> "SEO-Potenzial-Fehler", crawler |-> "Crawler-Fehler",
     analyst |-> "Analyst-Agent Fehler", trend_scout |-> "Trend-Scout-Agent Fehler",
     strategist |-> "Strategen-Agent Fehler", editor |-> "Redakteur-Agent Fehler"]

\* C15: when pipeline.run has returned, every collaborator whose call
\* failed (traffic estimator, crawler, an agent, or the history sink) has
\* an error string in result.errors.
C15_EveryFailureRecorded ==
    run_pc = "returned" =>
        \A who \in run_failed :
            /\ who \in DOMAIN ErrorLabel
            /\ \E i \in DOMAIN run_result.errors :
                  run_result.errors[i].label = ErrorLabel[who]

---------------------------------------------------------------------------
(* Properties of the failure handling of the revision loop.                *)

\* the number of errors recorded with a label, for one pass or for all
ErrorCount(label, loop) ==
    Cardinality({j \in DOMAIN content_result.errors :
                    content_result.errors[j] = ErrorString(label, loop)})

LabelCount(label) ==
    Cardinality({j \in DOMAIN content_result.errors :
                    content_result.errors[j].label = label})

\* no evaluator call after call i
LastEvaluator(i) == \A j \in (i + 1)..Len(calls) : calls[j].agent # "evaluator"

RaisedCalls == {j \in DOMAIN calls : calls[j].raised}

\* C16: the Fact-Checker of a pass gets the Writer's draft of that pass.
\* If it raises, one Fact-Checker error is recorded for the pass, the
\* Evaluator of the pass is called on that unmodified draft, and that draft
\* is the one stored in result.article; if it returns, no such error is
\* recorded and the Evaluator is called on the Fact-Checker's draft.
C16_FactCheckerFailurePassesDraftThrough ==
    \A i \in DOMAIN calls :
        calls[i].agent = "fact_checker" =>
            LET c == calls[i]
                p == calls[i].pass
            IN  /\ i > 1
                /\ calls[i - 1].agent = "writer"
                /\ calls[i - 1].pass = p
                /\ ~ calls[i - 1].raised
                /\ c.draft = WriterDraft(p, calls[i - 1].feedback)
                /\ ErrorCount("Fact-Checker-Fehler", loop_label(p)) = IF c.raised THEN 1 ELSE 0
                /\ i < Len(calls) =>
                      /\ calls[i + 1].agent = "evaluator"
                      /\ calls[i + 1].pass = p
                      /\ c.raised => calls[i + 1].draft = c.draft
                      /\ ~ c.raised => calls[i + 1].draft = [c.draft EXCEPT !.checked = TRUE]
                      /\ LastEvaluator(i + 1) =>
                            /\ TruthyDict(content_result.article)
                            /\ content_result.article = calls[i + 1].draft

\* C16 witness: a returned run in which the Fact-Checker returned on one
\* pass and raised on the last one, whose unchecked draft is stored.
C16_Witness ==
    /\ content_pc = "returned"
    /\ \E i, j \in DOMAIN calls :
          /\ i < j
          /\ calls[i].agent = "fact_checker" /\ ~ calls[i].raised
          /\ calls[j].agent = "fact_checker" /\ calls[j].raised
          /\ LastEvaluator(j + 1)
    /\ TruthyDict(content_result.article)
    /\ ~ content_result.article.checked

\* C17: when the Evaluator raises, the evaluation stored is overall 0, not
\* passed, with empty scores; one Evaluator error is recorded (the only
\* one of the run); the draft of the pass is stored with its pass number;
\* no further call is made and the run goes on to return.
C17_EvaluatorFailureFallsBack ==
    \A i \in DOMAIN calls :
        (calls[i].agent = "evaluator" /\ calls[i].raised) =>
            /\ i = Len(calls)
            /\ content_pc \in {"social", "returned"}
            /\ TruthyDict(content_result.evaluation)
            /\ content_result.evaluation.overall = 0
            /\ content_result.evaluation.passed = FALSE
            /\ ~ TruthyDict(content_result.evaluation.scores)
            /\ ErrorCount("Evaluator-Fehler", loop_label(calls[i].pass)) = 1
            /\ LabelCount("Evaluator-Fehler") = 1
            /\ TruthyDict(content_result.article)
            /\ content_result.article = calls[i].draft
            /\ content_result.revision_count = calls[i].pass

\* C17 witness: the run has returned after the Evaluator raised on a
\* revision pass.
C17_Witness ==
    /\ content_pc = "returned"
    /\ Len(calls) > 0
    /\ calls[Len(calls)].agent = "evaluator"
    /\ calls[Len(calls)].raised
    /\ calls[Len(calls)].pass > 0

\* C18: the first Writer call receives no feedback; every later Writer
\* call follows the Evaluator call of the preceding pass, which did not
\* pass, and receives exactly its non-empty feedback.  After a pass that
\* did not pass, the Writer is called again exactly when a revision pass
\* remains and the feedback is non-empty.
C18_RevisionDrivenByFeedback ==
    /\ \A i \in DOMAIN calls :
          calls[i].agent = "writer" =>
              IF calls[i].pass = 0
              THEN calls[i].feedback = None
              ELSE /\ calls[i - 1].agent = "evaluator"
                   /\ calls[i - 1].pass = calls[i].pass - 1
                   /\ ~ Get(calls[i - 1].result, "passed", FALSE)
                   /\ calls[i].feedback = Get(calls[i - 1].result, "feedback", "")
                   /\ calls[i].feedback # ""
    /\ \A i \in DOMAIN calls :
          (calls[i].agent = "evaluator" /\ ~ Get(calls[i].result, "passed", FALSE)) =>
              LET more == /\ calls[i].pass < MAX_REVISION_LOOPS
                          /\ Get(calls[i].result, "feedback", "") # ""
              IN  IF i < Len(calls)
                  THEN more /\ calls[i + 1].agent = "writer"
                  ELSE more <=> content_pc = "writer"

\* C18 witness: three Writer calls, the second and third with the feedback
\* of the pass before;
\* the run has returned.
C18_Witness ==
    /\ content_pc = "returned"
    /\ \E i, j, k \in DOMAIN calls :
          /\ calls[i].agent = "writer" /\ calls[i].feedback = None
          /\ calls[j].agent = "writer" /\ calls[j].feedback = "fb1"
          /\ calls[k].agent = "writer" /\ calls[k].feedback = "fb2"
          /\ i < j /\ j < k

\* C19: a Writer failure is the last call of the run and records the only
\* Writer error.  On the first pass, article and evaluation stay empty and
\* neither the Fact-Checker nor the Evaluator has been called; on a later
\* pass, article, evaluation and revision_count are those of the pass
\* before.
C19_WriterFailureEndsLoop ==
    \A i \in DOMAIN calls :
        (calls[i].agent = "writer" /\ calls[i].raised) =>
            /\ i = Len(calls)
            /\ content_pc \in {"social", "returned"}
            /\ LabelCount("Writer-Fehler") = 1
            /\ ErrorCount("Writer-Fehler", loop_label(calls[i].pass)) = 1
            /\ IF calls[i].pass = 0
               THEN /\ ~ TruthyDict(content_result.article)
                    /\ ~ TruthyDict(content_result.evaluation)
                    /\ content_result.revision_count = 0
                    /\ CallCount("fact_checker") = 0
                    /\ CallCount("evaluator") = 0
                    /\ Stored(content_result) = calls[i].before
               ELSE /\ calls[i - 1].agent = "evaluator"
                    /\ calls[i - 1].pass = calls[i].pass - 1
                    /\ TruthyDict(content_result.article)
                    /\ content_result.article = calls[i - 1].draft
                    /\ TruthyDict(content_result.evaluation)
                    /\ Verdict(content_result.evaluation) = calls[i - 1].result
                    /\ content_result.revision_count = calls[i].pass - 1
                    /\ Stored(content_result) = calls[i].before

\* C19 witness: the run has returned after the Writer raised on the third
\* pass; the draft of the second pass is kept.
C19_Witness ==
    /\ content_pc = "returned"
    /\ Len(calls) > 0
    /\ calls[Len(calls)].agent = "writer"
    /\ calls[Len(calls)].raised
    /\ calls[Len(calls)].pass = MAX_REVISION_LOOPS
    /\ content_result.revision_count = MAX_REVISION_LOOPS - 1

\* C20: the social writer is called at most once, as the last call of the
\* run, after an Evaluator call that passed, on the stored non-empty
\* article; a returned run has called it exactly when the stored
\* evaluation passed and the article is non-empty.  Whether it raises or
\* not, article, evaluation and revision_count are those of the last pass;
\* if it raises, social_snippets is empty and one error is recorded for it,
\* one error per failed call in all.
C20_SocialWriterOnlyAfterPassedLoop ==
    /\ CallCount("social_writer") <= 1
    /\ \A i \in DOMAIN calls :
          calls[i].agent = "social_writer" =>
              /\ i = Len(calls)
              /\ content_pc = "returned"
              /\ i > 1
              /\ calls[i - 1].agent = "evaluator"
              /\ Get(calls[i - 1].result, "passed", FALSE)
              /\ TruthyDict(calls[i].draft)
              /\ calls[i].draft = calls[i - 1].draft
              /\ content_result.article = calls[i].draft
              /\ Verdict(content_result.evaluation) = calls[i - 1].result
              /\ content_result.revision_count = calls[i - 1].pass
              /\ Stored(content_result) = calls[i].before
              /\ IF calls[i].raised
                 THEN /\ ~ TruthyDict(content_result.social_snippets)
                      /\ LabelCount("Social-Writer-Fehler") = 1
                      /\ Len(content_result.errors) = Cardinality(RaisedCalls)
                 ELSE /\ TruthyDict(content_result.social_snippets)
                      /\ LabelCount("Social-Writer-Fehler") = 0
    /\ (content_pc = "returned" /\ calls # <<>>) =>
          (CallCount("social_writer") = 1
              <=> /\ Get(content_result.evaluation, "passed", FALSE)
                  /\ TruthyDict(content_result.article))

\* C20 witness: the social writer raised after a revision pass passed, in
\* a run whose Fact-Checker had raised before.
C20_Witness ==
    /\ content_pc = "returned"
    /\ Len(calls) > 0
    /\ calls[Len(calls)].agent = "social_writer"
    /\ calls[Len(calls)].raised
    /\ content_result.revision_count > 0
    /\ Cardinality(RaisedCalls) > 1

\* the position in `calls` of the last Evaluator call (0 if none)
LastScoring ==
    IF CallCount("evaluator") = 0 THEN 0
    ELSE CHOOSE i \in DOMAIN calls : calls[i].agent = "evaluator" /\ LastEvaluator(i)

\* C21: when the run has returned after at least one Evaluator call, the
\* stored article is the draft handed to the last Evaluator call, the
\* stored evaluation is that call's assessment (the fallback if it
\* raised), and revision_count is that pass's index, in
\* 0..MAX_REVISION_LOOPS; after MAX_REVISION_LOOPS + 1 scored passes none
\* of which passed, they are those of the pass with index
\* MAX_REVISION_LOOPS.
C21_ResultIsLastScoredPass ==
    (content_pc = "returned" /\ CallCount("evaluator") > 0) =>
        LET last == calls[LastScoring]
        IN  /\ TruthyDict(content_result.article)
            /\ content_result.article = last.draft
            /\ content_result.article.draft_of_pass = last.pass
            /\ Verdict(content_result.evaluation) = last.result
            /\ last.raised => content_result.evaluation.overall = 0
            /\ ~ last.raised =>
                  content_result.evaluation.overall = overall_of(content_result.evaluation.scores)
            /\ content_result.revision_count = last.pass
            /\ content_result.revision_count \in 0..MAX_REVISION_LOOPS
            /\ (/\ CallCount("evaluator") = MAX_REVISION_LOOPS + 1
                /\ ~ Get(content_result.evaluation, "passed", FALSE)) =>
                  /\ content_result.revision_count = MAX_REVISION_LOOPS
                  /\ content_result.article.draft_of_pass = MAX_REVISION_LOOPS

\* C21 witness: the budget is exhausted: three scored passes, none passed,
\* the run has returned.
C21_Witness ==
    /\ content_pc = "returned"
    /\ CallCount("evaluator") = MAX_REVISION_LOOPS + 1
    /\ CallCount("writer") = MAX_REVISION_LOOPS + 1
    /\ ~ Get(content_result.evaluation, "passed", FALSE)

\* C30: a pass whose Evaluator call raised is the last pass, whatever its
\* index: its assessment carries empty feedback, no Writer call follows
\* and none is pending, the social writer is never called, and the stored
\* evaluation is not passed with revision_count the index of that pass.
C30_ScoringFailureEndsLoop ==
    \A i \in DOMAIN calls :
        (calls[i].agent = "evaluator" /\ calls[i].raised) =>
            /\ calls[i].result.feedback = ""
            /\ \A j \in DOMAIN calls : calls[j].agent = "writer" => j < i
            /\ content_pc # "writer"
            /\ CallCount("writer") = calls[i].pass + 1
            /\ CallCount("social_writer") = 0
            /\ ~ TruthyDict(content_result.social_snippets)
            /\ ~ Get(content_result.evaluation, "passed", FALSE)
            /\ content_result.revision_count = calls[i].pass

\* C30 witness: the Evaluator raised on the first pass, with two revision
\* passes left, and the run has returned after one Writer call.
C30_Witness ==
    /\ content_pc = "returned"
    /\ CallCount("writer") = 1
    /\ CallCount("evaluator") = 1
    /\ calls[Len(calls)].agent = "evaluator"
    /\ calls[Len(calls)].raised
    /\ calls[Len(calls)].pass < MAX_REVISION_LOOPS

---------------------------------------------------------------------------
(* Properties of the shared deadline and of the worker pool.               *)

\* C22: every wait on a fetch's completion ends no later than the single
\* deadline set at submission, so no wait and no waiting time lies past
\* it; a wait that begins once the deadline is exhausted ends at once.
C22_WaitsCappedAtDeadline ==
    fan_pc = "waiting" =>
        /\ wait_until <= deadline
        /\ now <= deadline

\* C23: a fetch whose prerequisites are missing is never submitted to the
\* worker pool, leaves its slot empty and records no error.
C23_ShortCircuitTakesNoWorker ==
    \A i \in 1..NumFetches :
        ShortCircuited(fetch_map[i]) =>
            /\ worker[i] = "unsubmitted"
            /\ fetched[i] = <<>>
            /\ Len(ErrorsOf(i)) = 0

\* C24: once the results are merged, each source's data and errors are
\* fixed by its own outcome alone, whatever the other workers did and
\* whenever they did it: a fetch that returned by the deadline holds its
\* data and no error, a fetch that raised holds no data and one error, and
\* a fetch that had not finished by the deadline (it returned after it, or
\* ended after its wait was given up) holds no data and one timeout error.
C24_MergedResultFixedByOutcomes ==
    fan_pc = "seo_potential" =>
        \A i \in 1..NumFetches :
            /\ (worker[i] = "returned" /\ i \notin returned_late) =>
                  /\ MergedData(i) = FetchReturn(fetch_map[i])
                  /\ ErrorsOf(i) = <<>>
            /\ worker[i] = "raised" =>
                  /\ MergedData(i) = <<>>
                  /\ Len(ErrorsOf(i)) = 1
            /\ (worker[i] = "finished" \/ i \in returned_late) =>
                  /\ MergedData(i) = <<>>
                  /\ ErrorsOf(i) = <<[label |-> fetch_map[i], error |-> "TimeoutError"]>>

---------------------------------------------------------------------------
(* Properties of redistribution and of the publish dates.                  *)

\* the positions at which two calendars of equal length differ
ChangedAt(old, new) == {i \in DOMAIN old : new[i] # old[i]}

\* C25: every redistribution move changes exactly one entry, and only its
\* week, from w to w + 1, where week w held two or more entries and week
\* w + 1 none; no entry left in week w has a greater urgency than the
\* moved one, and every entry left in week w of the same urgency comes
\* before it in the urgency-sorted order.
C25_MoveTakesLowestPriority ==
    [][ (cal_pc = "phase2" /\ calendar' # calendar) =>
          /\ Len(calendar') = Len(calendar)
          /\ \E i \in DOMAIN calendar :
                LET w == calendar[i].week
                IN  /\ ChangedAt(calendar, calendar') = {i}
                    /\ calendar' = [calendar EXCEPT ![i].week = w + 1]
                    /\ w \in 1..3
                    /\ Count(w) >= 2
                    /\ Count(w + 1) = 0
                    /\ \A j \in DOMAIN calendar :
                          (j # i /\ calendar[j].week = w) =>
                              /\ calendar[j].urgency <= calendar[i].urgency
                              /\ calendar[j].urgency = calendar[i].urgency => j < i
                    /\ \A j \in DOMAIN calendar : calendar[j].idea = sorted_ideas[j]
      ]_vars

\* C25 witness: during redistribution an entry has been moved out of a
\* week in which an entry of the same urgency stays.
C25_Witness ==
    /\ cal_pc = "phase2"
    /\ moves > 0
    /\ \E i, j \in DOMAIN calendar :
          /\ i < j
          /\ calendar[i].urgency = calendar[j].urgency
          /\ calendar[j].week = calendar[i].week + 1
          /\ calendar[j].week > calendar[j].urgency
          /\ Count(calendar[j].week) = 1

\* the first week from urg on with a free slot before a placement, 4 if none
FirstFreeFrom(urg) ==
    LET free == {w \in urg..4 : Count(w) < Len(WEEK_SLOTS)}
    IN  IF free = {} THEN 4 ELSE CHOOSE w \in free : \A v \in free : w <= v

\* C26: every entry's week is at least its urgency at every point, and its
\* urgency is the classification of its idea; each placement puts the idea
\* into the first week from its urgency on that has a free slot, week 4 if
\* there is none; no step after that decreases the week of an entry.
C26_NeverBeforeUrgencyWeek ==
    /\ [](\A i \in DOMAIN calendar :
            /\ calendar[i].week >= calendar[i].urgency
            /\ calendar[i].urgency = urgency(ideas[calendar[i].idea], CalendarTrends))
    /\ [][ cal_pc = "phase1" =>
             /\ Len(calendar') = Len(calendar) + 1
             /\ \A i \in DOMAIN calendar : calendar'[i] = calendar[i]
             /\ calendar'[Len(calendar')].week =
                    FirstFreeFrom(calendar'[Len(calendar')].urgency)
       ]_vars
    /\ [][ cal_pc = "phase2" =>
             \A i \in DOMAIN calendar : calendar'[i].week >= calendar[i].week
       ]_vars

\* C26 witness: a returned calendar in which one entry was placed later
\* than its urgency week by the spill and another by redistribution.
C26_Witness ==
    /\ cal_pc = "returned"
    /\ moves > 0
    /\ \E i \in DOMAIN calendar : calendar[i].urgency = 1 /\ calendar[i].week = 2
    /\ \E i \in DOMAIN calendar : calendar[i].urgency = 2 /\ calendar[i].week = 3

\* the position of an entry's idea in the urgency-sorted order
SortedPos(e) == CHOOSE r \in DOMAIN sorted_ideas : sorted_ideas[r] = e.idea

\* the number of entries of the same week before position r of the list
EarlierInWeek(r) ==
    Cardinality({q \in 1..(r - 1) : calendar[q].week = calendar[r].week})

\* C27: the returned list is ordered by (week, urgency), ties in the order
\* of placement; the k-th entry (k = 0, 1, ...) of week w has publish date
\* monday + 7 (w - 1) + 0, 2, 4 for k = 0, 1, 2 and + 4 for k >= 3; so the
\* dates never decrease along the list, no two entries of a week 1..3
\* share a date, and two entries share a date only as Friday entries of
\* week 4 from the third on.
C27_PublishDatesBySlot ==
    cal_pc = "returned" =>
        /\ \A r, q \in DOMAIN calendar :
              r < q =>
                 /\ calendar[r].week <= calendar[q].week
                 /\ calendar[r].week = calendar[q].week =>
                       calendar[r].urgency <= calendar[q].urgency
                 /\ (/\ calendar[r].week = calendar[q].week
                     /\ calendar[r].urgency = calendar[q].urgency) =>
                       SortedPos(calendar[r]) < SortedPos(calendar[q])
                 /\ calendar[r].publish_date <= calendar[q].publish_date
                 /\ calendar[r].publish_date = calendar[q].publish_date =>
                       /\ calendar[r].week = 4
                       /\ calendar[q].week = 4
                       /\ EarlierInWeek(r) >= 2
                       /\ calendar[r].publish_date = monday + 7 * 3 + 4
        /\ \A r \in DOMAIN calendar :
              calendar[r].publish_date =
                 monday + 7 * (calendar[r].week - 1)
                    + (CASE EarlierInWeek(r) = 0 -> 0
                         [] EarlierInWeek(r) = 1 -> 2
                         [] OTHER -> 4)

\* C27 witness: a returned calendar with five entries in week 4, three of
\* them on its Friday, and entries in week 1.
C27_Witness ==
    /\ cal_pc = "returned"
    /\ Count(4) = 5
    /\ Count(1) >= 1
    /\ Cardinality({r \in DOMAIN calendar :
                       calendar[r].publish_date = monday + 7 * 3 + 4}) = 3


---------------------------------------------------------------------------
(* Properties of the rounding of the quality gate (agents/evaluator.run).  *)

\* the sum of the four dimension scores of the response, a missing one as 0
SentSum ==
    LET sent == Get(ev_raw, "scores", EmptyDict)
    IN  SumSeq([i \in 1..4 |-> IF ScoreKeys[i] \in DOMAIN sent THEN sent[ScoreKeys[i]] ELSE 0])

\* C29: the aggregate is the mean of the four integer scores rounded half to
\* even, a missing dimension counted as 0: it is the nearest integer of
\* sum / 4 and the even neighbour when the mean ends in .5, so that with the
\* threshold 80 the article passes exactly when the sum is at least 318; a
\* sum of 318 and a sum of 322 both give the aggregate 80.
C29_HalfToEvenGate ==
    ev_pc # "call" =>
        LET diff == 4 * ev_out.overall - SentSum
        IN  /\ diff \in -2..2
            /\ (diff \in {-2, 2} => ev_out.overall % 2 = 0)
            /\ ev_out.passed = (SentSum >= 318)
            /\ (SentSum \in {318, 322} => ev_out.overall = 80)
            /\ (ev_pc = "gated" => (ev_gate = "Passed") = (SentSum >= 318))

\* C29 witness: a response whose scores sum to 318 has been scored and gated
\* as passed.
C29_Witness ==
    /\ ev_pc = "gated"
    /\ SentSum = 318
    /\ ev_out.overall = 80
    /\ ev_gate = "Passed"

---------------------------------------------------------------------------
(* Properties of the idea evaluation (agents/idea_evaluator.run).          *)

\* the rounded average of the four dimension scores of the response, a
\* missing one as 0
SentAverage ==
    LET sent == Get(idea_data, "scores", EmptyDict)
    IN  PyRoundQuarter(SumSeq([i \in 1..4 |->
            IF IdeaScoreKeys[i] \in DOMAIN sent THEN sent[IdeaScoreKeys[i]] ELSE 0]))

\* C28: for every service response, the score idea_evaluator.run returns is
\* the rounded average of the four dimension scores, and the verdict follows
\* from that score alone: >= 70 'Empfohlen', 45..69 'Mit Vorbehalt', below 45
\* 'Nicht empfohlen', whatever verdict the service reported.
C28_ScoreIsRoundedAverage ==
    (idea_pc # "call" /\ ~ idea_evaluation.raised) =>
        LET out == idea_evaluation.value
        IN  /\ out.score = SentAverage
            /\ out.verdict = (IF out.score >= 70 THEN "Empfohlen"
                              ELSE IF out.score >= 45 THEN "Mit Vorbehalt"
                              ELSE "Nicht empfohlen")
            /\ (idea_pc = "stored" =>
                   /\ idea_result.score = out.score
                   /\ idea_result.verdict = out.verdict)

=========================================================================
